---- MODULE Spec2Model ----
(***************************************************************************)
(* pgclone: the clone orchestrator (internal/clone/orchestrator.go), the   *)
(* parallel transfer engine (internal/rsync/parallel.go), the replica file *)
(* lock (internal/lock/lock.go), the file distributor, the rsync           *)
(* statistics and the WAL receiver (internal/wal/receiver.go).             *)
(*                                                                         *)
(* The specifications of the module:                                       *)
(*   SpecRun  - one execution of cli.RootCmd.RunE -> clone.Run -> Close     *)
(*   SpecPar  - one call of rsync.RunParallel with its goroutines           *)
(*   SpecLock - processes calling FileLock.TryLock / Unlock on one path     *)
(*   SpecProg - the progress stream and counter of one RunParallel          *)
(*   SpecAdd  - Stats.Add on records as ParseStats yields them              *)
(*   SpecDist - one call of Distribute                                      *)
(*   SpecStop - goroutines calling Receiver.Stop on one Receiver            *)
(*   SpecFin  - stepWalFinalize moving the streamed WAL into the replica    *)
(*   SpecBoot - rsync.StartRemote choosing and reporting the daemon port    *)
(*   SpecWait - one call of postgres.WaitReplicationStarted                 *)
(*   SpecSsh  - one call of ssh.Client.Run                                  *)
(*   SpecRt   - Stats.Summary rendered and read back by ParseStats          *)
(*   SpecParLive - SpecPar with the fairness of the Go scheduler            *)
(*   SpecBoots - concurrent calls of rsync.StartRemote on one primary       *)
(*   SpecSec  - concurrent clone runs and the local secret file             *)
(*   SpecConn - the daemon's connection limit and the workers of a call     *)
(* Each leaves the variables of the others unchanged.                      *)
(***************************************************************************)
EXTENDS Naturals, Integers, Sequences, FiniteSets, TLC

VARIABLES
    \* ---- orchestrator ----
    pc,            \* position of the orchestrator task inside RunE / Run / Close
    cfg,           \* the Config record handed to Run (and the replica dir's state at start)
    result,        \* what Run returns: "none" | "ok" | "err" | "cancelled"
    ctxCancelled,  \* the root context has been cancelled
    o,             \* the Orchestrator struct's fields (nil-ness of each handle)
    recv,          \* the wal.Receiver instance: cmd set, closed flag, signals sent
    world,         \* what exists outside the process: subprocesses, connections, remote and local files
    hist,          \* history of the run: which calls were issued / returned, in which order
    elapsed,       \* time spent so far in the poll loop the task is in (0 outside the loops)
    closeCalls,    \* number of times Close has been entered
    \* ---- parallel transfer engine ----
    ppc,           \* position of the RunParallel caller goroutine
    pctx,          \* RunParallel's ctx has been cancelled
    wk,            \* per worker: subprocess state, exit status, goroutine position
    errCh,         \* buffered error channel (capacity = workers)
    statsCh,       \* buffered stats channel (capacity = workers)
    closer,        \* position of the pipe-closer goroutine
    readers,       \* the goroutines counted by wg that are still running
    pres,          \* RunParallel's return: "none" | "ok" | "err" | "cancelled"
    agg,           \* the workers whose stats records were summed into the returned total
    \* ---- file lock ----
    lpc,           \* per process: position in TryLock / Unlock
    fh,            \* per process: inode of the open lock-file handle (0: none)
    pathInode,     \* inode the lock path currently names (0: no such file)
    inodes,        \* number of inodes created so far
    flockOwner,    \* per inode: the process holding the flock on it (0: unlocked)
    tryRes,        \* per process: result of its last TryLock, and who held a lock then
    \* ---- progress stream of one RunParallel ----
    gpc,           \* "running" | "returned": RunParallel has returned success
    pmode,         \* progress mode: "bar" | "plain" | "none"
    wlines,        \* per worker: sizes rsync has still to print on stdout, one per line
    wpipe,         \* per worker: bytes in the OS pipe between the awk filter and its copier
    pstream,       \* bytes written to the shared progress pipe and not yet read
    pwClosed,      \* progressWriter has been closed by the pipe closer
    preader,       \* progress tracking goroutine: "reading" | "done"
    progressBytes, \* the shared progress counter
    emitted,       \* sum of the sizes of all stdout lines the workers emit in this call
    aggBytes,      \* BytesReceived of the returned aggregate
    \* ---- Stats.Add ----
    addt,          \* three Stats records and the results of the Add calls made on them
    \* ---- Distribute ----
    dist,          \* one call of Distribute: the caller's slice, the worker count, the buckets returned
    \* ---- Receiver.Stop ----
    spc,           \* per caller of Stop: position inside Stop
    sret,          \* per caller of Stop: what its Stop returned ("none" | "nil" | "err")
    sdid,          \* per caller of Stop: interrupts sent and drop-slot commands run by its call
    sorder,        \* the callers in the order in which they took r.mu
    startedAt,     \* per caller of Stop: r.cmd was set when it took r.mu
    rcvCmd,        \* r.cmd is set (Start has succeeded)
    rcvClosed,     \* r.closed
    rcvSlot,       \* r.Slot is not empty
    rcvProc,       \* the pg_receivewal process: "none" | "running" | "zombie" | "reaped"
    startRes,      \* what the calls of Start returned so far, in order ("ok" | "err")
    launched,      \* number of pg_receivewal subprocesses launched by Start
    \* ---- stepWalFinalize: move and rename ----
    fin,           \* the WAL temp dir, the replica WAL dir and the position in the move / rename
    \* ---- StartRemote: the bootstrap script ----
    boot,          \* the ports in use on the primary and what the script did
    \* ---- WaitReplicationStarted ----
    wrs,           \* one call: timeout, clock, polls made, ctx, position and result
    \* ---- ssh.Client.Run ----
    ssh,           \* one call: session, remote command, done channel, ctx and result
    \* ---- Stats.Summary / ParseStats ----
    rt,            \* a Stats record, its rendering and what ParseStats reads back
    \* ---- concurrent bootstraps on one primary ----
    boots,         \* ports listening on the primary and each bootstrap's progress
    \* ---- concurrent clone runs on one host ----
    sec,           \* the local secret file(s) and each run's daemon secret
    \* ---- daemon connections ----
    conn           \* Parallel, CPU count, the daemon's limit and the workers connected

runVars  == <<pc, cfg, result, ctxCancelled, o, recv, world, hist, elapsed, closeCalls>>
parVars  == <<ppc, pctx, wk, errCh, statsCh, closer, readers, pres, agg>>
lockVars == <<lpc, fh, pathInode, inodes, flockOwner, tryRes>>
progVars == <<gpc, pmode, wlines, wpipe, pstream, pwClosed, preader, progressBytes, emitted, aggBytes>>
stopVars == <<spc, sret, sdid, sorder, startedAt, rcvCmd, rcvClosed, rcvSlot, rcvProc, startRes, launched>>
extraVars == <<ssh, rt, boots, sec, conn>>
vars     == <<runVars, parVars, lockVars, progVars, addt, dist, stopVars, fin, boot, wrs, extraVars>>

(***************************************************************************)
(* Bounds of the model.                                                    *)
(***************************************************************************)
MaxTablespaces == 2   \* user tablespaces the primary may have
MaxExtraClose  == 1   \* further calls of Close after the deferred one
NumWorkers     == 2   \* non-empty buckets of one RunParallel call
NumProcs       == 3   \* pgclone processes started on the same replica path
MaxInodes      == 3   \* lock files ever created at the lock path
MaxLines       == 2   \* stdout lines one worker's rsync prints
CopyBuf        == 2   \* bytes one read of the awk output copier takes at most (scaled down from 32 KiB)
MaxStat        == 2   \* scale of the integer counters of a Stats record
MaxGen         == 2   \* largest FileListGenSeconds of a Stats record

(***************************************************************************)
(* Program constants.                                                      *)
(***************************************************************************)
WalWaitBudget == 60   \* seconds: deadline of the WAL-segment wait
WalPollSleep  == 2    \* seconds slept between two stats of the segment file
ReplWaitBudget == 60  \* seconds: timeout handed to WaitReplicationStarted
ReplPollSleep  == 1   \* seconds between two queries of pg_stat_replication
PortTimeoutMs   == 30000  \* milliseconds: default BootstrapOptions.Timeout
PortPollSleepMs == 200    \* milliseconds slept between two reads of the PORT file

BOOL == {TRUE, FALSE}

(***************************************************************************)
(*                      THE CLONE ORCHESTRATOR                             *)
(***************************************************************************)

SpcIds == 1..MaxTablespaces

InitRun ==
    /\ pc = "RunE"
    /\ cfg \in [TempWALDir: BOOL, KeepRunTmp: BOOL, DropExisting: BOOL, replicaNonEmpty: BOOL,
                UseSlot: BOOL, SlotName: {""}]
    /\ result = "none"
    /\ ctxCancelled = FALSE
    /\ o = [recv |-> FALSE, conn |-> FALSE, rsyncDaemon |-> FALSE, sshClient |-> FALSE,
            tmpDir |-> FALSE, tablespaces |-> 0, spcIdx |-> 1]
    /\ recv = [cmd |-> FALSE, closed |-> FALSE, signals |-> 0, slot |-> "", drops |-> 0]
    /\ world = [recvProc |-> "none", conn |-> "none", ssh |-> "none", daemon |-> "none",
                remoteDir |-> "none", tmpDir |-> "none", backup |-> "none",
                replicaDeleted |-> FALSE, segPresent |-> FALSE,
                walMoved |-> FALSE, partialRenamed |-> FALSE, chmodDone |-> FALSE,
                callerDir |-> IF cfg.TempWALDir THEN "exists" ELSE "none"]
    /\ hist = [labelWritten |-> FALSE, mapLost |-> FALSE, finalFailed |-> FALSE,
               tsTruncated |-> FALSE,
               replOK |-> FALSE, backupStartIssued |-> FALSE, backupStartOK |-> FALSE,
               backupStopIssued |-> 0,
               initial |-> "pending", base |-> "pending",
               spc |-> [t \in SpcIds |-> "pending"],
               segSeen |-> FALSE, seenLate |-> FALSE, walTimeout |-> FALSE, finStop |-> "no",
               teardown |-> <<>>, stopOnClosedSsh |-> FALSE, stopKilled |-> FALSE,
               daemonCreated |-> FALSE, sshDialed |-> FALSE, cancelInTransfer |-> FALSE]
    /\ elapsed = 0
    /\ closeCalls = 0

\* A step of the orchestrator leaves the engine's and the lock's variables alone.
RunOnly == UNCHANGED <<parVars, lockVars, progVars, addt, dist, stopVars, fin, boot, wrs, extraVars>>

\* The outcomes of a call that takes ctx: a call made on a cancelled context
\* returns the cancellation error.
CtxOutcomes == IF ctxCancelled THEN {"cancelled"} ELSE {"ok", "err"}

\* `return err` inside Run: the deferred o.Close(ctx) runs, then Run returns err.
Return(kind) ==
    /\ result' = kind
    /\ pc' = "Close_recv"
    /\ closeCalls' = closeCalls + 1
    /\ RunOnly

Goto(next) ==
    /\ pc' = next
    /\ UNCHANGED <<result, closeCalls>>
    /\ RunOnly

\* One step of Run whose outcome is `out`: on success go on, otherwise return.
Step(out, next) == IF out = "ok" THEN Goto(next) ELSE Return(out)

\* Positions at which a module transfer is running.
TransferRunning == {"InitialSweep_running", "BaseSweep_running", "SpcSweep_running"}

\* The root context is cancelled (a signal). exec.CommandContext kills the
\* WAL receiver subprocess.
Cancel ==
    /\ pc \notin {"RunE", "returned"}
    /\ ~ctxCancelled
    /\ ctxCancelled' = TRUE
    /\ world' = [world EXCEPT !.recvProc = IF @ = "running" THEN "exited" ELSE @]
    /\ hist' = [hist EXCEPT !.cancelInTransfer = (pc \in TransferRunning)]
    /\ UNCHANGED <<pc, cfg, result, o, recv, elapsed, closeCalls>>
    /\ RunOnly

\* The receiver subprocess exits by itself.
RecvExits ==
    /\ pc # "returned"
    /\ world.recvProc = "running"
    /\ world' = [world EXCEPT !.recvProc = "exited"]
    /\ UNCHANGED <<pc, cfg, result, ctxCancelled, o, recv, hist, elapsed, closeCalls>>
    /\ RunOnly

\* The receiver completes the segment that holds stopLSN.
WalSegmentArrives ==
    /\ pc # "returned"
    /\ world.backup = "stopped"
    /\ ~world.walMoved
    /\ world.recvProc = "running"
    /\ ~world.segPresent
    /\ world' = [world EXCEPT !.segPresent = TRUE]
    /\ UNCHANGED <<pc, cfg, result, ctxCancelled, o, recv, hist, elapsed, closeCalls>>
    /\ RunOnly

\* cli.RootCmd.RunE: builds clone.Config from the flags and calls clone.Run.
\* DropExisting is not copied into clone.Config and the replica directory is
\* not inspected.  UseSlot is copied; SlotName has no flag and stays empty.
RunE ==
    /\ pc = "RunE"
    /\ Goto("MkdirTemp")
    /\ UNCHANGED <<cfg, ctxCancelled, o, recv, world, hist, elapsed>>

\* Receiver.Stop applied to receiver r whose subprocess is in state proc.
ReceiverStop(r, proc) ==
    IF r.closed THEN [r |-> r, proc |-> proc]
    ELSE IF ~r.cmd THEN [r |-> [r EXCEPT !.closed = TRUE], proc |-> proc]
    ELSE IF proc # "running" THEN [r |-> [r EXCEPT !.closed = TRUE], proc |-> proc]
    ELSE [r |-> [r EXCEPT !.closed = TRUE, !.signals = @ + 1,
                          !.drops = IF r.slot # "" THEN @ + 1 ELSE @],
          proc |-> "exited"]

----------------------------------------------------------------------------
\* stepWalAndRsyncd

MkdirTemp ==
    /\ pc = "MkdirTemp"
    /\ IF cfg.TempWALDir
       THEN /\ Goto("RecvStart")
            /\ UNCHANGED <<o, world>>
       ELSE \E out \in {"ok", "err"} :
            /\ Step(out, "RecvStart")
            /\ o' = [o EXCEPT !.tmpDir = (out = "ok")]
            /\ world' = [world EXCEPT !.tmpDir = IF out = "ok" THEN "exists" ELSE @]
    /\ UNCHANGED <<cfg, ctxCancelled, recv, hist, elapsed>>

RecvStart ==
    /\ pc = "RecvStart"
    /\ \E out \in CtxOutcomes :
        /\ Step(out, "PgConnect")
        /\ o' = [o EXCEPT !.recv = TRUE]
        /\ recv' = [recv EXCEPT !.cmd = (out = "ok"), !.slot = cfg.SlotName]
        /\ world' = [world EXCEPT !.recvProc = IF out = "ok" THEN "running" ELSE @]
    /\ UNCHANGED <<cfg, ctxCancelled, hist, elapsed>>

PgConnect ==
    /\ pc = "PgConnect"
    /\ \E out \in CtxOutcomes :
        /\ Step(out, "WaitReplicationStarted")
        /\ IF out = "ok"
           THEN /\ o' = [o EXCEPT !.conn = TRUE]
                /\ world' = [world EXCEPT !.conn = "open"]
                /\ UNCHANGED recv
           ELSE LET s == ReceiverStop(recv, world.recvProc) IN
                /\ recv' = s.r
                /\ world' = [world EXCEPT !.recvProc = s.proc]
                /\ UNCHANGED o
    /\ UNCHANGED <<cfg, ctxCancelled, hist, elapsed>>

\* Mutant: the error of the replication-start wait is dropped.
WaitReplicationStarted_errIgnored ==
    /\ pc = "WaitReplicationStarted"
    /\ IF ctxCancelled
       THEN /\ Goto("ListTablespaces")
            /\ elapsed' = 0
            /\ UNCHANGED hist
       ELSE \E q \in {"err", "exists", "absent"} :
            /\ q = "exists" => world.recvProc = "running"
            /\ IF q = "exists"
               THEN /\ Goto("ListTablespaces")
                    /\ hist' = [hist EXCEPT !.replOK = TRUE]
                    /\ elapsed' = 0
               ELSE IF q = "err" \/ elapsed > ReplWaitBudget
               THEN /\ Goto("ListTablespaces")
                    /\ elapsed' = 0
                    /\ UNCHANGED hist
               ELSE /\ Goto("WaitReplicationStarted")
                    /\ elapsed' = elapsed + ReplPollSleep
                    /\ UNCHANGED hist
    /\ UNCHANGED <<cfg, ctxCancelled, o, recv, world>>

\* One iteration of WaitReplicationStarted's loop: the query (which fails on a
\* cancelled ctx), the deadline check, then a select on ctx.Done() and a 1 s
\* timer. The receiver shows in pg_stat_replication only while it runs.
WaitReplicationStarted ==
    /\ pc = "WaitReplicationStarted"
    /\ IF ctxCancelled
       THEN /\ Return("cancelled")
            /\ elapsed' = 0
            /\ UNCHANGED hist
       ELSE \E q \in {"err", "exists", "absent"} :
            /\ q = "exists" => world.recvProc = "running"
            /\ IF q = "exists"
               THEN /\ Goto("ListTablespaces")
                    /\ hist' = [hist EXCEPT !.replOK = TRUE]
                    /\ elapsed' = 0
               ELSE IF q = "err" \/ elapsed > ReplWaitBudget
               THEN /\ Return("err")
                    /\ elapsed' = 0
                    /\ UNCHANGED hist
               ELSE /\ Goto("WaitReplicationStarted")
                    /\ elapsed' = elapsed + ReplPollSleep
                    /\ UNCHANGED hist
    /\ UNCHANGED <<cfg, ctxCancelled, o, recv, world>>

\* o.conn.Query, the tsRows.Next() loop appending n rows to o.tablespaces,
\* and `_ = tsRows.Err()`: an iteration that ended on an error (rowsErr,
\* after n rows with more to come) goes on like one that ended normally.
ListTablespaces ==
    /\ pc = "ListTablespaces"
    /\ \E out \in CtxOutcomes, n \in 0..MaxTablespaces, rowsErr \in BOOLEAN :
        /\ rowsErr => (out = "ok" /\ n < MaxTablespaces)
        /\ Step(out, "SshDial")
        /\ o' = [o EXCEPT !.tablespaces = IF out = "ok" THEN n ELSE @]
        /\ hist' = [hist EXCEPT !.tsTruncated = rowsErr]
    /\ UNCHANGED <<cfg, ctxCancelled, recv, world, elapsed>>

SshDial ==
    /\ pc = "SshDial"
    /\ \E out \in CtxOutcomes :
        /\ Step(out, "StartRemote")
        /\ world' = [world EXCEPT !.ssh = IF out = "ok" THEN "open" ELSE @]
        /\ hist' = [hist EXCEPT !.sshDialed = (out = "ok")]
    /\ UNCHANGED <<cfg, ctxCancelled, o, recv, elapsed>>

\* rsync.StartRemote up to the end of the bootstrap script: client.Run(ctx,
\* script). A failed run (script error, cancel) returns no handle and may
\* leave the remote dir and a daemon behind.
StartRemote ==
    /\ pc = "StartRemote"
    /\ \E out \in CtxOutcomes :
        /\ Step(out, "PortPoll")
        /\ IF out = "ok"
           THEN world' = [world EXCEPT !.daemon = "running", !.remoteDir = "exists"]
           ELSE \E rd \in {"none", "exists"}, dm \in {"none", "running"} :
                    /\ dm = "running" => rd = "exists"
                    /\ world' = [world EXCEPT !.daemon = dm, !.remoteDir = rd]
    /\ UNCHANGED <<cfg, ctxCancelled, o, recv, hist, elapsed>>

\* One iteration of StartRemote's PORT poll loop: client.Output(ctx, cat PORT)
\* with its error dropped (on a cancelled ctx it yields no data), the deadline
\* check, time.Sleep(200 ms). On a match StartRemote returns the handle and
\* the orchestrator assigns o.rsyncDaemon and o.sshClient.
PortPoll ==
    /\ pc = "PortPoll"
    /\ \E read \in (IF ctxCancelled THEN {FALSE} ELSE BOOL) :
        IF read
        THEN /\ Goto("BackupStart")
             /\ o' = [o EXCEPT !.rsyncDaemon = TRUE, !.sshClient = TRUE]
             /\ hist' = [hist EXCEPT !.daemonCreated = TRUE]
             /\ elapsed' = 0
        ELSE IF elapsed > PortTimeoutMs
        THEN /\ Return("err")
             /\ elapsed' = 0
             /\ UNCHANGED <<o, hist>>
        ELSE /\ Goto("PortPoll")
             /\ elapsed' = elapsed + PortPollSleepMs
             /\ UNCHANGED <<o, hist>>
    /\ UNCHANGED <<cfg, ctxCancelled, recv, world>>

----------------------------------------------------------------------------
\* stepBackupStart

BackupStart ==
    /\ pc = "BackupStart"
    /\ \E out \in CtxOutcomes :
        /\ Step(out, "PrepReplicaDir")
        /\ hist' = [hist EXCEPT !.backupStartIssued = TRUE, !.backupStartOK = (out = "ok")]
        /\ world' = [world EXCEPT !.backup = IF out = "ok" THEN "active" ELSE @]
    /\ UNCHANGED <<cfg, ctxCancelled, o, recv, elapsed>>

\* os.MkdirAll(ReplicaPGData) and the write of the secret file.
PrepReplicaDir ==
    /\ pc = "PrepReplicaDir"
    /\ \E out \in {"ok", "err"} : Step(out, "InitialSweep")
    /\ UNCHANGED <<cfg, ctxCancelled, o, recv, world, hist, elapsed>>

\* exec.CommandContext(ctx, "rsync", "-a", "--delete", ...) is started.
InitialSweepStart ==
    /\ pc = "InitialSweep"
    /\ IF ctxCancelled
       THEN /\ Return("cancelled")
            /\ UNCHANGED hist
       ELSE /\ Goto("InitialSweep_running")
            /\ hist' = [hist EXCEPT !.initial = "running"]
    /\ UNCHANGED <<cfg, ctxCancelled, o, recv, world, elapsed>>

\* The initial sweep returns. --delete removes what the replica directory held
\* and the primary does not; a failed sweep may already have removed it.
InitialSweepReturn ==
    /\ pc = "InitialSweep_running"
    /\ \E out \in CtxOutcomes, del \in BOOL :
        /\ del => cfg.replicaNonEmpty
        /\ out = "ok" => del = cfg.replicaNonEmpty
        /\ Step(out, "ListBase")
        /\ hist' = [hist EXCEPT !.initial = IF out = "ok" THEN "ok" ELSE "failed"]
        /\ world' = [world EXCEPT !.replicaDeleted = del]
    /\ UNCHANGED <<cfg, ctxCancelled, o, recv, elapsed>>

\* listModuleFiles(base) and os.MkdirAll(baseDst).
ListBase ==
    /\ pc = "ListBase"
    /\ \E out \in CtxOutcomes : Step(out, "BaseSweep")
    /\ UNCHANGED <<cfg, ctxCancelled, o, recv, world, hist, elapsed>>

\* What rsync.RunParallel hands back to the orchestrator.
RunParallelOutcomes == IF ctxCancelled THEN {"cancelled"} ELSE {"ok", "err"}

BaseSweepStart ==
    /\ pc = "BaseSweep"
    /\ Goto("BaseSweep_running")
    /\ hist' = [hist EXCEPT !.base = "running"]
    /\ UNCHANGED <<cfg, ctxCancelled, o, recv, world, elapsed>>

BaseSweepReturn ==
    /\ pc = "BaseSweep_running"
    /\ \E out \in RunParallelOutcomes :
        /\ Step(out, "SpcLoop")
        /\ hist' = [hist EXCEPT !.base = IF out = "ok" THEN "ok" ELSE "failed"]
    /\ UNCHANGED <<cfg, ctxCancelled, o, recv, world, elapsed>>

\* One iteration of `for _, t := range o.tablespaces` up to RunParallel:
\* listing, `continue` on an empty listing, MkdirAll of the location.
ListSpc ==
    /\ pc = "SpcLoop"
    /\ o.spcIdx <= o.tablespaces
    /\ \E out \in CtxOutcomes, empty \in BOOL :
        IF out = "ok" /\ empty
        THEN /\ Goto("SpcLoop")
             /\ o' = [o EXCEPT !.spcIdx = @ + 1]
             /\ hist' = [hist EXCEPT !.spc[o.spcIdx] = "skipped"]
        ELSE /\ Step(out, "SpcSweep_running")
             /\ hist' = [hist EXCEPT !.spc[o.spcIdx] = IF out = "ok" THEN "running" ELSE "failed"]
             /\ UNCHANGED o
    /\ UNCHANGED <<cfg, ctxCancelled, recv, world, elapsed>>

SpcSweepReturn ==
    /\ pc = "SpcSweep_running"
    /\ \E out \in RunParallelOutcomes :
        /\ Step(out, "SpcLoop")
        /\ hist' = [hist EXCEPT !.spc[o.spcIdx] = IF out = "ok" THEN "ok" ELSE "failed"]
        /\ o' = [o EXCEPT !.spcIdx = IF out = "ok" THEN @ + 1 ELSE @]
    /\ UNCHANGED <<cfg, ctxCancelled, recv, world, elapsed>>

\* The loop is over: stepBackupStart returns nil.
SpcLoopDone ==
    /\ pc = "SpcLoop"
    /\ o.spcIdx > o.tablespaces
    /\ Goto("BackupStop")
    /\ UNCHANGED <<cfg, ctxCancelled, o, recv, world, hist, elapsed>>

----------------------------------------------------------------------------
\* stepBackupStop

BackupStop ==
    /\ pc = "BackupStop"
    /\ \E out \in CtxOutcomes :
        /\ Step(out, "WriteLabel")
        /\ hist' = [hist EXCEPT !.backupStopIssued = @ + 1]
        /\ world' = [world EXCEPT !.backup = IF out = "ok" THEN "stopped" ELSE @]
    /\ UNCHANGED <<cfg, ctxCancelled, o, recv, elapsed>>

\* backup_label: written, an error of os.WriteFile is returned.
\* tablespace_map: written when mapB64 is not empty, the error of
\* os.WriteFile is dropped.
WriteLabel ==
    /\ pc = "WriteLabel"
    /\ \E labelWrite \in {"ok", "err"}, mapNonEmpty \in BOOL, mapWrite \in {"ok", "err"} :
        /\ Step(labelWrite, "FetchPgControl")
        /\ (labelWrite = "err" \/ ~mapNonEmpty) => mapWrite = "ok"
        /\ hist' = [hist EXCEPT !.labelWritten = (labelWrite = "ok"),
                                !.mapLost = (mapWrite = "err")]
    /\ UNCHANGED <<cfg, ctxCancelled, o, recv, world, elapsed>>

FetchPgControl ==
    /\ pc = "FetchPgControl"
    /\ \E out \in CtxOutcomes : Step(out, "WalFileName")
    /\ UNCHANGED <<cfg, ctxCancelled, o, recv, world, hist, elapsed>>

----------------------------------------------------------------------------
\* stepWalFinalize

WalFileName ==
    /\ pc = "WalFileName"
    /\ \E out \in CtxOutcomes : Step(out, "WalWait")
    /\ UNCHANGED <<cfg, ctxCancelled, o, recv, world, hist, elapsed>>

\* Mutant: on the deadline the loop is left with `break` instead of `return err`.
WalWaitPoll_breakOnDeadline ==
    /\ pc = "WalWait"
    /\ IF world.segPresent
       THEN /\ Goto("FinalizeRecvStop")
            /\ hist' = [hist EXCEPT !.segSeen = TRUE, !.seenLate = (elapsed > WalWaitBudget)]
            /\ elapsed' = 0
       ELSE IF elapsed > WalWaitBudget
       THEN /\ Goto("FinalizeRecvStop")
            /\ hist' = [hist EXCEPT !.walTimeout = TRUE]
            /\ elapsed' = 0
       ELSE /\ Goto("WalWait")
            /\ elapsed' = elapsed + WalPollSleep
            /\ UNCHANGED hist
    /\ UNCHANGED <<cfg, ctxCancelled, o, recv, world>>

\* One iteration of the wait loop: stat, deadline check, sleep.
WalWaitPoll ==
    /\ pc = "WalWait"
    /\ IF world.segPresent
       THEN /\ Goto("FinalizeRecvStop")
            /\ hist' = [hist EXCEPT !.segSeen = TRUE, !.seenLate = (elapsed > WalWaitBudget)]
            /\ elapsed' = 0
       ELSE IF elapsed > WalWaitBudget
       THEN /\ Return("err")
            /\ hist' = [hist EXCEPT !.walTimeout = TRUE]
            /\ elapsed' = 0
       ELSE /\ Goto("WalWait")
            /\ elapsed' = elapsed + WalPollSleep
            /\ UNCHANGED hist
    /\ UNCHANGED <<cfg, ctxCancelled, o, recv, world>>

\* o.recv.Stop() inside finalize; its error is only logged.
FinalizeRecvStop ==
    /\ pc = "FinalizeRecvStop"
    /\ LET s == ReceiverStop(recv, world.recvProc) IN
        /\ recv' = s.r
        /\ world' = [world EXCEPT !.recvProc = s.proc]
    /\ hist' = [hist EXCEPT !.finStop = "returned"]
    /\ Goto("MoveWalFiles")
    /\ UNCHANGED <<cfg, ctxCancelled, o, elapsed>>

MoveWalFiles ==
    /\ pc = "MoveWalFiles"
    /\ \E out \in {"ok", "err"}, moved \in BOOL :
        /\ out = "ok" => moved
        /\ Step(out, "RenamePartial")
        /\ world' = [world EXCEPT !.walMoved = moved]
    /\ UNCHANGED <<cfg, ctxCancelled, o, recv, hist, elapsed>>

RenamePartial ==
    /\ pc = "RenamePartial"
    /\ world' = [world EXCEPT !.partialRenamed = TRUE]
    /\ Goto("FinalChecks")
    /\ UNCHANGED <<cfg, ctxCancelled, o, recv, hist, elapsed>>

----------------------------------------------------------------------------
\* stepFinalChecks, then `return nil`

\* Mutant: the two chmod calls are made before the checks.
FinalChecks_chmodFirst ==
    /\ pc = "FinalChecks"
    /\ \E out \in {"ok", "err"} :
        /\ Return(out)
        /\ world' = [world EXCEPT !.chmodDone = TRUE]
        /\ hist' = [hist EXCEPT !.finalFailed = (out = "err")]
    /\ UNCHANGED <<cfg, ctxCancelled, o, recv, elapsed>>

\* The stats of the three required files and the glob of the WAL segments:
\* on a miss the step returns the error; otherwise both directories are
\* chmod-ed and Run returns nil.
FinalChecks ==
    /\ pc = "FinalChecks"
    /\ \E out \in {"ok", "err"} :
        /\ Return(out)
        /\ world' = [world EXCEPT !.chmodDone = (out = "ok")]
        /\ hist' = [hist EXCEPT !.finalFailed = (out = "err")]
    /\ UNCHANGED <<cfg, ctxCancelled, o, recv, elapsed>>

----------------------------------------------------------------------------
\* Orchestrator.Close

Close_recv ==
    /\ pc = "Close_recv"
    /\ IF o.recv
       THEN LET s == ReceiverStop(recv, world.recvProc) IN
            /\ recv' = s.r
            /\ world' = [world EXCEPT !.recvProc = s.proc]
            /\ o' = [o EXCEPT !.recv = FALSE]
            /\ hist' = [hist EXCEPT !.teardown = Append(@, "recv")]
       ELSE UNCHANGED <<recv, world, o, hist>>
    /\ Goto("Close_daemon")
    /\ UNCHANGED <<cfg, ctxCancelled, elapsed>>

\* What the remote stop script has done when client.Run(ctx, stopScript)
\* returns. On a cancelled ctx Run's select takes ctx.Done(), sends SIGKILL to
\* the session and returns at once: the script may not have started, may have
\* killed the daemon only, or may have finished.
StopScriptOutcomes(sshState, cancelled) ==
    IF sshState # "open" THEN {"none"}
    ELSE IF cancelled THEN {"none", "killed", "complete"}
    ELSE {"complete"}

\* Mutant: o.rsyncDaemon is not reset to nil after Stop.
Close_daemon_noReset ==
    /\ pc = "Close_daemon"
    /\ IF o.rsyncDaemon
       THEN \E out \in StopScriptOutcomes(world.ssh, ctxCancelled) :
            /\ world' = [world EXCEPT
                           !.daemon = IF out \in {"killed", "complete"} THEN "killed" ELSE @,
                           !.remoteDir = IF out = "complete" THEN "removed" ELSE @]
            /\ UNCHANGED o
            /\ hist' = [hist EXCEPT !.teardown = Append(@, "daemon"),
                                    !.stopOnClosedSsh = @ \/ (world.ssh # "open"),
                                    !.stopKilled = @ \/ ctxCancelled]
       ELSE UNCHANGED <<world, o, hist>>
    /\ Goto("Close_ssh")
    /\ UNCHANGED <<cfg, ctxCancelled, recv, elapsed>>

\* Mutant: the error of the daemon's Stop becomes Run's error.
Close_daemon_errReturned ==
    /\ pc = "Close_daemon"
    /\ IF o.rsyncDaemon
       THEN \E out \in StopScriptOutcomes(world.ssh, ctxCancelled) :
            /\ world' = [world EXCEPT
                           !.daemon = IF out \in {"killed", "complete"} THEN "killed" ELSE @,
                           !.remoteDir = IF out = "complete" THEN "removed" ELSE @]
            /\ o' = [o EXCEPT !.rsyncDaemon = FALSE]
            /\ hist' = [hist EXCEPT !.teardown = Append(@, "daemon"),
                                    !.stopOnClosedSsh = @ \/ (world.ssh # "open"),
                                    !.stopKilled = @ \/ ctxCancelled]
            /\ result' = IF out = "complete" THEN result ELSE "err"
       ELSE UNCHANGED <<world, o, hist, result>>
    /\ pc' = "Close_ssh"
    /\ UNCHANGED <<cfg, ctxCancelled, recv, elapsed, closeCalls>>
    /\ RunOnly

Close_daemon ==
    /\ pc = "Close_daemon"
    /\ IF o.rsyncDaemon
       THEN \E out \in StopScriptOutcomes(world.ssh, ctxCancelled) :
            /\ world' = [world EXCEPT
                           !.daemon = IF out \in {"killed", "complete"} THEN "killed" ELSE @,
                           !.remoteDir = IF out = "complete" THEN "removed" ELSE @]
            /\ o' = [o EXCEPT !.rsyncDaemon = FALSE]
            /\ hist' = [hist EXCEPT !.teardown = Append(@, "daemon"),
                                    !.stopOnClosedSsh = @ \/ (world.ssh # "open"),
                                    !.stopKilled = @ \/ ctxCancelled]
       ELSE UNCHANGED <<world, o, hist>>
    /\ Goto("Close_ssh")
    /\ UNCHANGED <<cfg, ctxCancelled, recv, elapsed>>

Close_ssh ==
    /\ pc = "Close_ssh"
    /\ IF o.sshClient
       THEN /\ world' = [world EXCEPT !.ssh = "closed"]
            /\ o' = [o EXCEPT !.sshClient = FALSE]
            /\ hist' = [hist EXCEPT !.teardown = Append(@, "ssh")]
       ELSE UNCHANGED <<world, o, hist>>
    /\ Goto("Close_tmp")
    /\ UNCHANGED <<cfg, ctxCancelled, recv, elapsed>>

\* Mutant: the directory the receiver wrote to is removed, whoever made it.
Close_tmp_removesWalDir ==
    /\ pc = "Close_tmp"
    /\ IF ~cfg.KeepRunTmp
       THEN /\ world' = [world EXCEPT !.tmpDir = IF o.tmpDir THEN "removed" ELSE @,
                                      !.callerDir = IF cfg.TempWALDir THEN "removed" ELSE @]
            /\ o' = [o EXCEPT !.tmpDir = FALSE]
            /\ hist' = [hist EXCEPT !.teardown = Append(@, "tmp")]
       ELSE UNCHANGED <<world, o, hist>>
    /\ Goto("returned")
    /\ UNCHANGED <<cfg, ctxCancelled, recv, elapsed>>

Close_tmp ==
    /\ pc = "Close_tmp"
    /\ IF o.tmpDir /\ ~cfg.KeepRunTmp
       THEN /\ world' = [world EXCEPT !.tmpDir = "removed"]
            /\ o' = [o EXCEPT !.tmpDir = FALSE]
            /\ hist' = [hist EXCEPT !.teardown = Append(@, "tmp")]
       ELSE UNCHANGED <<world, o, hist>>
    /\ Goto("returned")
    /\ UNCHANGED <<cfg, ctxCancelled, recv, elapsed>>

\* Close is called once more on the same Orchestrator ("safe to call multiple times").
CloseAgain ==
    /\ pc = "returned"
    /\ closeCalls < 1 + MaxExtraClose
    /\ pc' = "Close_recv"
    /\ closeCalls' = closeCalls + 1
    /\ RunOnly
    /\ UNCHANGED <<cfg, result, ctxCancelled, o, recv, world, hist, elapsed>>

NextRun ==
    \/ RunE \/ Cancel \/ RecvExits \/ WalSegmentArrives
    \/ MkdirTemp \/ RecvStart \/ PgConnect \/ WaitReplicationStarted
    \/ ListTablespaces \/ SshDial \/ StartRemote \/ PortPoll
    \/ BackupStart \/ PrepReplicaDir \/ InitialSweepStart \/ InitialSweepReturn
    \/ ListBase \/ BaseSweepStart \/ BaseSweepReturn
    \/ ListSpc \/ SpcSweepReturn \/ SpcLoopDone
    \/ BackupStop \/ WriteLabel \/ FetchPgControl
    \/ WalFileName \/ WalWaitPoll \/ FinalizeRecvStop \/ MoveWalFiles \/ RenamePartial
    \/ FinalChecks
    \/ Close_recv \/ Close_daemon \/ Close_ssh \/ Close_tmp \/ CloseAgain

\* The engine and the lock, not running.
IdlePar ==
    /\ ppc = "idle" /\ pctx = FALSE /\ wk = <<>> /\ errCh = <<>> /\ statsCh = <<>>
    /\ closer = "none" /\ readers = {} /\ pres = "none" /\ agg = <<>>

\* The progress stream, not running.
IdleProg ==
    /\ gpc = "idle" /\ pmode = "none" /\ wlines = <<>> /\ wpipe = <<>> /\ pstream = <<>>
    /\ pwClosed = FALSE /\ preader = "none" /\ progressBytes = 0 /\ emitted = 0 /\ aggBytes = 0

\* No Stats.Add under study.
IdleAdd == addt = <<>>

\* No Distribute call.
IdleDist == dist = <<>>

\* No Receiver.
IdleStop ==
    /\ spc = <<>> /\ sret = <<>> /\ sdid = <<>> /\ sorder = <<>> /\ startedAt = <<>>
    /\ rcvCmd = FALSE /\ rcvClosed = FALSE /\ rcvSlot = FALSE /\ rcvProc = "none"
    /\ startRes = <<>> /\ launched = 0

\* No WAL finalize, no bootstrap script.
IdleFin == fin = <<>>

IdleBoot == boot = <<>>

\* No call of WaitReplicationStarted under study.
IdleWait == wrs = <<>>

\* No call of Client.Run under study.
IdleSsh == ssh = <<>>

\* No Stats record under study.
IdleRt == rt = <<>>

\* No concurrent bootstraps under study.
IdleBoots == boots = <<>>

\* No concurrent runs under study.
IdleSec == sec = <<>>

\* No daemon connections under study.
IdleConn == conn = <<>>

IdleExtra == IdleSsh /\ IdleRt /\ IdleBoots /\ IdleSec /\ IdleConn

IdleRest == IdleDist /\ IdleStop /\ IdleFin /\ IdleBoot /\ IdleWait /\ IdleExtra

IdleLock ==
    /\ lpc = <<>> /\ fh = <<>> /\ pathInode = 0 /\ inodes = 0
    /\ flockOwner = <<>> /\ tryRes = <<>>

InitSpecRun == InitRun /\ IdlePar /\ IdleLock /\ IdleProg /\ IdleAdd /\ IdleRest

SpecRun == InitSpecRun /\ [][NextRun]_vars

(***************************************************************************)
(*                   THE PARALLEL TRANSFER ENGINE                          *)
(*                                                                         *)
(* One call of RunParallel whose Distribute returned up to NumWorkers      *)
(* non-empty buckets (none for an empty file list). Goroutines: the caller (launch loop, then the final select),   *)
(* one worker goroutine per bucket, the pipe closer, the two shared stream *)
(* readers. A select picks any case that is ready when it is evaluated.    *)
(***************************************************************************)

Workers == 1..NumWorkers

\* The non-empty buckets of this call, in launch order.
Buckets == DOMAIN wk

\* The goroutines counted by wg: the progress reader, the stderr reader
\* and, in plain mode, the ticker.
WgGoroutines == {{"progress", "stderr"}, {"progress", "stderr", "ticker"}}

NoWorker == [proc |-> "none", exit |-> "none", g |-> "none", sent |-> "none"]

InitPar ==
    /\ ppc = "launch"
    /\ pctx = FALSE
    /\ wk \in {[i \in 1..n |-> NoWorker] : n \in 0..NumWorkers}
    /\ errCh = <<>>
    /\ statsCh = <<>>
    /\ closer = "none"
    /\ readers \in WgGoroutines
    /\ pres = "none"
    /\ agg = <<>>

ParOnly == UNCHANGED <<runVars, lockVars, progVars, addt, dist, stopVars, fin, boot, wrs, extraVars>>

\* Index of the next bucket of the launch loop.
NextIdx == 1 + Cardinality({i \in Buckets : wk[i].proc # "none"})

\* All worker goroutines started so far have returned (workersWG is zero).
WorkersDone == \A i \in Buckets : wk[i].g \in {"none", "done"}

\* ctx is cancelled by the caller.
ParCancel ==
    /\ ppc \in {"launch", "select"}
    /\ ~pctx
    /\ pctx' = TRUE
    /\ UNCHANGED <<ppc, wk, errCh, statsCh, closer, readers, pres, agg>>
    /\ ParOnly

\* One iteration of the launch loop: writeFiles, rsyncCmd.Start, the awk
\* filters' Start, `go func(...)`. A failure returns at once; on a cancelled
\* ctx Start returns ctx.Err().
ParLaunch ==
    /\ ppc = "launch"
    /\ NextIdx <= Len(wk)
    /\ \E out \in (IF pctx THEN {"cancelled"} ELSE {"ok", "err"}) :
        IF out = "ok"
        THEN /\ wk' = [wk EXCEPT ![NextIdx] =
                        [proc |-> "running", exit |-> "none", g |-> "wait", sent |-> "none"]]
             /\ UNCHANGED <<ppc, pres, agg>>
        ELSE /\ ppc' = "returned"
             /\ pres' = out
             /\ UNCHANGED wk
    /\ UNCHANGED <<pctx, errCh, statsCh, closer, readers, agg>>
    /\ ParOnly

\* The loop is over: the pipe-closer goroutine is started and the caller
\* goes to the final select.
ParLaunchDone ==
    /\ ppc = "launch"
    /\ NextIdx > Len(wk)
    /\ ppc' = "select"
    /\ closer' = "waitWorkers"
    /\ UNCHANGED <<pctx, wk, errCh, statsCh, readers, pres, agg>>
    /\ ParOnly

\* Worker i's transfer subprocess and its filters exit by themselves:
\* zero, rsync non-zero, or rsync zero and a filter non-zero.
ProcExit(i) ==
    /\ wk[i].proc = "running"
    /\ \E e \in {"ok", "fail", "awkfail"} :
        wk' = [wk EXCEPT ![i].proc = "exited", ![i].exit = e]
    /\ UNCHANGED <<ppc, pctx, errCh, statsCh, closer, readers, pres, agg>>
    /\ ParOnly

\* exec.CommandContext kills worker i's subprocess once ctx is done.
CtxKill(i) ==
    /\ pctx
    /\ wk[i].proc = "running"
    /\ wk' = [wk EXCEPT ![i].proc = "exited", ![i].exit = "killed"]
    /\ UNCHANGED <<ppc, pctx, errCh, statsCh, closer, readers, pres, agg>>
    /\ ParOnly

\* Worker i's select takes <-ctx.Done(): kill, wait for done, errCh <- ctx.Err().
WorkerOnCtxDone(i) ==
    /\ wk[i].g = "wait"
    /\ pctx
    /\ wk' = [wk EXCEPT ![i].proc = "exited",
                        ![i].exit = IF wk[i].proc = "running" THEN "killed" ELSE @,
                        ![i].g = "done", ![i].sent = "cancelled"]
    /\ errCh' = Append(errCh, "cancelled")
    /\ UNCHANGED <<ppc, pctx, statsCh, closer, readers, pres, agg>>
    /\ ParOnly

\* Worker i's select takes <-done: report rsyncErr, else the filters' errors,
\* else parse the log and send the stats (a select against ctx.Done()).
WorkerOnDone(i) ==
    /\ wk[i].g = "wait"
    /\ wk[i].proc = "exited"
    /\ IF wk[i].exit \in {"fail", "killed", "awkfail"}
       THEN /\ wk' = [wk EXCEPT ![i].g = "done", ![i].sent = "err"]
            /\ errCh' = Append(errCh, "err")
            /\ UNCHANGED statsCh
       ELSE \E delivered \in BOOL :
            /\ wk' = [wk EXCEPT ![i].g = "done",
                                ![i].sent = IF delivered THEN "stats" ELSE "nothing"]
            /\ statsCh' = IF delivered THEN Append(statsCh, i) ELSE statsCh
            /\ UNCHANGED errCh
    /\ UNCHANGED <<ppc, pctx, closer, readers, pres, agg>>
    /\ ParOnly

\* Mutant: the pipe closer does not wait for the worker goroutines.
CloserClosePipes_noWorkersWait ==
    /\ closer = "waitWorkers"
    /\ closer' = "waitReaders"
    /\ UNCHANGED <<ppc, pctx, wk, errCh, statsCh, readers, pres, agg>>
    /\ ParOnly

\* The pipe closer: workersWG.Wait() returned, both shared writers are closed.
CloserClosePipes ==
    /\ closer = "waitWorkers"
    /\ WorkersDone
    /\ closer' = "waitReaders"
    /\ UNCHANGED <<ppc, pctx, wk, errCh, statsCh, readers, pres, agg>>
    /\ ParOnly

\* A shared stream reader sees EOF and returns (the progress reader closes
\* plainDone on its way out).
ReaderExit ==
    /\ closer = "waitReaders"
    /\ \E r \in readers \ {"ticker"} : readers' = readers \ {r}
    /\ UNCHANGED <<ppc, pctx, wk, errCh, statsCh, closer, pres, agg>>
    /\ ParOnly

\* The plain-mode ticker's select takes <-ctx.Done() or <-plainDone.
TickerExit ==
    /\ "ticker" \in readers
    /\ pctx \/ "progress" \notin readers
    /\ readers' = readers \ {"ticker"}
    /\ UNCHANGED <<ppc, pctx, wk, errCh, statsCh, closer, pres, agg>>
    /\ ParOnly

\* The ticker fires and finds current >= totalBytes: it returns.
TickerComplete ==
    /\ "ticker" \in readers
    /\ readers' = readers \ {"ticker"}
    /\ UNCHANGED <<ppc, pctx, wk, errCh, statsCh, closer, pres, agg>>
    /\ ParOnly

\* The pipe closer: wg.Wait() returned, close(workersFinished).
CloserFinish ==
    /\ closer = "waitReaders"
    /\ readers = {}
    /\ closer' = "done"
    /\ UNCHANGED <<ppc, pctx, wk, errCh, statsCh, readers, pres, agg>>
    /\ ParOnly

\* The final select, case <-ctx.Done().
MainSelectCtx ==
    /\ ppc = "select"
    /\ pctx
    /\ ppc' = "returned"
    /\ pres' = "cancelled"
    /\ UNCHANGED <<pctx, wk, errCh, statsCh, closer, readers, agg>>
    /\ ParOnly

\* The final select, case err := <-errCh.
MainSelectErr ==
    /\ ppc = "select"
    /\ errCh # <<>>
    /\ ppc' = "returned"
    /\ pres' = Head(errCh)
    /\ errCh' = Tail(errCh)
    /\ UNCHANGED <<pctx, wk, statsCh, closer, readers, agg>>
    /\ ParOnly

\* The final select, case <-workersFinished: the stats channel is closed and
\* drained into the total, which is returned with a nil error. Every receive
\* on the closed channel is ready at once, so the loop ends on the closed
\* channel before its 1 s timer.
MainSelectFinished ==
    /\ ppc = "select"
    /\ closer = "done"
    /\ ppc' = "returned"
    /\ pres' = "ok"
    /\ agg' = statsCh
    /\ statsCh' = <<>>
    /\ UNCHANGED <<pctx, wk, errCh, closer, readers>>
    /\ ParOnly

NextPar ==
    \/ ParCancel \/ ParLaunch \/ ParLaunchDone
    \/ \E i \in Buckets : ProcExit(i)
    \/ \E i \in Buckets : CtxKill(i)
    \/ \E i \in Buckets : WorkerOnCtxDone(i)
    \/ \E i \in Buckets : WorkerOnDone(i)
    \/ CloserClosePipes \/ ReaderExit \/ TickerExit \/ TickerComplete \/ CloserFinish
    \/ MainSelectCtx \/ MainSelectErr \/ MainSelectFinished

\* The orchestrator, not running.
IdleRun ==
    /\ pc = "idle" /\ cfg = <<>> /\ result = "none" /\ ctxCancelled = FALSE
    /\ o = <<>> /\ recv = <<>> /\ world = <<>> /\ hist = <<>>
    /\ elapsed = 0 /\ closeCalls = 0

InitSpecPar == IdleRun /\ InitPar /\ IdleLock /\ IdleProg /\ IdleAdd /\ IdleRest

SpecPar == InitSpecPar /\ [][NextPar]_vars

\* C3: if any worker's transfer subprocess exited non-zero, RunParallel does
\* not return success.
C3_FailedWorkerFailsCall ==
    pres = "ok" => \A i \in Buckets : wk[i].exit # "fail"

\* C10: when RunParallel returns an error, no transfer subprocess it started
\* is still running.
C10_NoSubprocessLeftOnError ==
    (ppc = "returned" /\ pres # "ok") => \A i \in Buckets : wk[i].proc # "running"

\* C15: when RunParallel has returned success (the stats channel was closed
\* and read), every worker goroutine had finished, its subprocess and filters
\* had exited, the shared stream readers had drained, and no worker goroutine
\* is left that could still send on the closed channel.
C15_AggregationAfterWorkers ==
    pres = "ok" =>
        /\ \A i \in Buckets : wk[i].g = "done" /\ wk[i].proc = "exited"
        /\ readers = {}
        /\ closer = "done"

C15_Witness ==
    /\ pres = "ok"
    /\ Len(agg) = NumWorkers
    /\ \A i \in Buckets : wk[i].sent = "stats"

\* C16: on successful return of a call whose ctx was never cancelled, the
\* aggregate holds exactly one stats record of every launched worker whose
\* subprocess and filters exited zero (a fortiori of every launched worker),
\* and a worker that reported an error sent no record.
C16_OneRecordPerWorker ==
    /\ (pres = "ok" /\ ~pctx) =>
          \A i \in Buckets : wk[i].exit = "ok" =>
              Cardinality({k \in DOMAIN agg : agg[k] = i}) = 1
    /\ \A i \in Buckets : wk[i].sent \in {"err", "cancelled"} =>
          \A k \in DOMAIN statsCh : statsCh[k] # i

\* C11: if ctx was cancelled while a worker's subprocess was running (the
\* subprocess was killed for it), RunParallel returns the context's
\* cancellation error: not the subprocess' exit error and not success.
C11_CancelReturnsCtxErr ==
    (ppc = "returned" /\ \E i \in Buckets : wk[i].exit = "killed") => pres = "cancelled"

\* RunParallel under the scheduling the runtime gives: every goroutine that
\* can take a step takes one, a select with a ready case takes a ready
\* case, a killed or finished subprocess is seen to exit, and a subprocess
\* that runs exits in the end.  The cancellation of ctx and the tick that
\* finds the transfer complete are left to chance.
FairPar ==
    /\ WF_vars(ParLaunch) /\ WF_vars(ParLaunchDone)
    /\ \A i \in Workers : WF_vars(i \in Buckets /\ ProcExit(i))
    /\ \A i \in Workers : WF_vars(i \in Buckets /\ CtxKill(i))
    /\ \A i \in Workers : WF_vars(i \in Buckets /\ (WorkerOnCtxDone(i) \/ WorkerOnDone(i)))
    /\ WF_vars(CloserClosePipes) /\ WF_vars(ReaderExit) /\ WF_vars(TickerExit)
    /\ WF_vars(CloserFinish)
    /\ WF_vars(MainSelectCtx \/ MainSelectErr \/ MainSelectFinished)

SpecParLive == InitSpecPar /\ [][NextPar]_vars /\ FairPar

\* No transfer subprocess of the call is running.
AllExited == \A i \in Buckets : wk[i].proc # "running"

\* The pipe closer (if it was started), the progress reader, the stderr
\* reader and the ticker have all returned.
GoroutinesEnded == closer \in {"none", "done"} /\ readers = {}

\* C35: once every subprocess has exited or ctx is cancelled, the call
\* returns and the pipe closer, the two readers and the ticker terminate.
C35_ReturnsAndGoroutinesEnd ==
    (AllExited \/ pctx) ~> (ppc = "returned" /\ GoroutinesEnded)

\* C35 (what holds): the call returns; when it has reached its final select
\* the pipe closer, the readers and the ticker terminate too.
C35_CallReturns ==
    /\ (AllExited \/ pctx) ~> (ppc = "returned")
    /\ (closer # "none") ~> (closer = "done" /\ readers = {})

\* C35 (what holds): a call with an empty file list launches no worker and,
\* unless ctx is cancelled, returns success with zero stats.
C35_EmptyListSucceeds ==
    (Len(wk) = 0 /\ ppc = "returned" /\ ~pctx) => (pres = "ok" /\ agg = <<>>)

(***************************************************************************)
(*                        THE REPLICA FILE LOCK                            *)
(*                                                                         *)
(* NumProcs pgclone processes run RunE on the same replica path: lock.New  *)
(* gives each the same lock path, TryLock opens the file (creating it) and *)
(* takes a non-blocking flock on the open file, the deferred Unlock drops  *)
(* the flock, closes the handle and then removes the path.                 *)
(***************************************************************************)

Procs == 1..NumProcs

InitLock ==
    /\ lpc = [p \in Procs |-> "idle"]
    /\ fh = [p \in Procs |-> 0]
    /\ pathInode = 0
    /\ inodes = 0
    /\ flockOwner = [i \in 1..MaxInodes |-> 0]
    /\ tryRes = [p \in Procs |-> [res |-> "none", heldByOther |-> FALSE]]

LockOnly == UNCHANGED <<runVars, parVars, progVars, addt, dist, stopVars, fin, boot, wrs, extraVars>>

\* The processes whose TryLock returned true and that have not unlocked yet.
Holders == {p \in Procs : lpc[p] = "held"}

\* TryLock, first half: the library opens the lock path with O_CREATE.
TryLockOpen(p) ==
    /\ lpc[p] = "idle"
    /\ IF pathInode # 0
       THEN /\ fh' = [fh EXCEPT ![p] = pathInode]
            /\ UNCHANGED <<pathInode, inodes>>
       ELSE /\ inodes < MaxInodes
            /\ inodes' = inodes + 1
            /\ pathInode' = inodes + 1
            /\ fh' = [fh EXCEPT ![p] = inodes + 1]
    /\ lpc' = [lpc EXCEPT ![p] = "opened"]
    /\ UNCHANGED <<flockOwner, tryRes>>
    /\ LockOnly

\* TryLock, second half: flock(LOCK_EX|LOCK_NB) on the open file. EWOULDBLOCK
\* is (false, nil) and the handle is closed; RunE then returns an error.
TryLockFlock(p) ==
    /\ lpc[p] = "opened"
    /\ IF flockOwner[fh[p]] = 0
       THEN /\ flockOwner' = [flockOwner EXCEPT ![fh[p]] = p]
            /\ lpc' = [lpc EXCEPT ![p] = "held"]
            /\ tryRes' = [tryRes EXCEPT ![p] = [res |-> "true", heldByOther |-> Holders # {}]]
            /\ UNCHANGED fh
       ELSE /\ lpc' = [lpc EXCEPT ![p] = "done"]
            /\ fh' = [fh EXCEPT ![p] = 0]
            /\ tryRes' = [tryRes EXCEPT ![p] = [res |-> "false", heldByOther |-> Holders # {}]]
            /\ UNCHANGED flockOwner
    /\ UNCHANGED <<pathInode, inodes>>
    /\ LockOnly

\* Unlock, first half: l.fl.Unlock() releases the flock and closes the handle.
UnlockRelease(p) ==
    /\ lpc[p] = "held"
    /\ flockOwner' = [flockOwner EXCEPT ![fh[p]] = 0]
    /\ fh' = [fh EXCEPT ![p] = 0]
    /\ lpc' = [lpc EXCEPT ![p] = "removing"]
    /\ UNCHANGED <<pathInode, inodes, tryRes>>
    /\ LockOnly

\* Unlock, second half: os.Remove(l.path) unlinks whatever file the path names.
UnlockRemove(p) ==
    /\ lpc[p] = "removing"
    /\ pathInode' = 0
    /\ lpc' = [lpc EXCEPT ![p] = "done"]
    /\ UNCHANGED <<fh, inodes, flockOwner, tryRes>>
    /\ LockOnly

NextLock ==
    \/ \E p \in Procs : TryLockOpen(p)
    \/ \E p \in Procs : TryLockFlock(p)
    \/ \E p \in Procs : UnlockRelease(p)
    \/ \E p \in Procs : UnlockRemove(p)

InitSpecLock == IdleRun /\ IdlePar /\ InitLock /\ IdleProg /\ IdleAdd /\ IdleRest

SpecLock == InitSpecLock /\ [][NextLock]_vars

\* C8: at most one process holds the lock at any time, and a TryLock made
\* while another process holds the lock returns false.
C8_LockExclusive ==
    /\ Cardinality(Holders) <= 1
    /\ \A p \in Procs : tryRes[p].res = "true" => ~tryRes[p].heldByOther

(***************************************************************************)
(*                 THE PROGRESS STREAM OF RunParallel                      *)
(*                                                                         *)
(* One successful call of RunParallel, seen from its stdout side: every    *)
(* worker's rsync prints one size per line (--out-format=%l) through an     *)
(* awk pass-through; the filter's output is copied, one read of at most    *)
(* CopyBuf bytes at a time, into the one progressWriter all workers share; *)
(* the progress tracking goroutine reads the shared pipe line by line.     *)
(***************************************************************************)

Modes == {"bar", "plain", "none"}

\* Sizes rsync may print.
Sizes == {0, 7, 12}

\* BytesReceived values a worker's --stats block may carry.
RecvValues == {0, 40}

Digits == <<"0", "1", "2", "3", "4", "5", "6", "7", "8", "9">>

NL == "\n"

IsDigit(c) == \E i \in 1..10 : Digits[i] = c

DigitVal(c) == (CHOOSE i \in 1..10 : Digits[i] = c) - 1

\* The decimal text of n, as %l prints it.
RECURSIVE FormatSize(_)
FormatSize(n) == IF n < 10 THEN <<Digits[n + 1]>>
                 ELSE Append(FormatSize(n \div 10), Digits[(n % 10) + 1])

\* parseSizeBytes: the value of the leading decimal digits of b, and whether
\* there was any.
RECURSIVE ParseFrom(_, _, _, _)
ParseFrom(b, i, n, parsed) ==
    IF i > Len(b) \/ ~IsDigit(b[i]) THEN [n |-> n, ok |-> parsed]
    ELSE ParseFrom(b, i + 1, n * 10 + DigitVal(b[i]), TRUE)

parseSizeBytes(b) == ParseFrom(b, 1, 0, FALSE)

RECURSIVE SumSeq(_)
SumSeq(q) == IF q = <<>> THEN 0 ELSE Head(q) + SumSeq(Tail(q))

RECURSIVE SumOver(_, _)
SumOver(f, S) == IF S = {} THEN 0
                 ELSE LET x == CHOOSE y \in S : TRUE IN f[x] + SumOver(f, S \ {x})

LineSeqs == UNION {[1..k -> Sizes] : k \in 0..MaxLines}

\* Index of the first newline of q, 0 if there is none.
FirstNL(q) == IF \E i \in 1..Len(q) : q[i] = NL
              THEN CHOOSE i \in 1..Len(q) : q[i] = NL /\ \A j \in 1..(i - 1) : q[j] # NL
              ELSE 0

InitProg ==
    /\ gpc = "running"
    /\ pmode \in Modes
    /\ wlines \in [Workers -> LineSeqs]
    /\ wpipe = [w \in Workers |-> <<>>]
    /\ pstream = <<>>
    /\ pwClosed = FALSE
    /\ preader = "reading"
    /\ progressBytes = 0
    /\ emitted = SumOver([w \in Workers |-> SumSeq(wlines[w])], Workers)
    /\ aggBytes = 0

ProgOnly == UNCHANGED <<runVars, parVars, lockVars, addt, dist, stopVars, fin, boot, wrs, extraVars>>

\* Worker w's rsync prints its next line; awk passes it on whole.
RsyncPrint(w) ==
    /\ wlines[w] # <<>>
    /\ wpipe' = [wpipe EXCEPT ![w] = @ \o FormatSize(Head(wlines[w])) \o <<NL>>]
    /\ wlines' = [wlines EXCEPT ![w] = Tail(@)]
    /\ UNCHANGED <<gpc, pmode, pstream, pwClosed, preader, progressBytes, emitted, aggBytes>>
    /\ ProgOnly

\* The copier of worker w's awk output: one Read of at most CopyBuf bytes, one
\* Write of them to the shared progressWriter (writes to it are serialised).
CopyChunk(w) ==
    /\ wpipe[w] # <<>>
    /\ LET k == IF Len(wpipe[w]) < CopyBuf THEN Len(wpipe[w]) ELSE CopyBuf IN
        /\ pstream' = pstream \o SubSeq(wpipe[w], 1, k)
        /\ wpipe' = [wpipe EXCEPT ![w] = SubSeq(@, k + 1, Len(@))]
    /\ UNCHANGED <<gpc, pmode, wlines, pwClosed, preader, progressBytes, emitted, aggBytes>>
    /\ ProgOnly

\* What the progress goroutine does with one line it has read.
CountLine(line) ==
    LET r == parseSizeBytes(line) IN
    IF pmode = "plain" /\ r.ok /\ r.n > 0 THEN progressBytes + r.n ELSE progressBytes

\* br.ReadBytes('\n') returns a line.
ReaderLine ==
    /\ preader = "reading"
    /\ FirstNL(pstream) # 0
    /\ LET i == FirstNL(pstream) IN
        /\ progressBytes' = CountLine(SubSeq(pstream, 1, i))
        /\ pstream' = SubSeq(pstream, i + 1, Len(pstream))
    /\ UNCHANGED <<gpc, pmode, wlines, wpipe, pwClosed, preader, emitted, aggBytes>>
    /\ ProgOnly

\* All workers are done (their subprocesses, filters and copiers have
\* finished): the pipe closer closes progressWriter.
ClosePipes ==
    /\ ~pwClosed
    /\ \A w \in Workers : wlines[w] = <<>> /\ wpipe[w] = <<>>
    /\ pwClosed' = TRUE
    /\ UNCHANGED <<gpc, pmode, wlines, wpipe, pstream, preader, progressBytes, emitted, aggBytes>>
    /\ ProgOnly

\* br.ReadBytes returns what is left with io.EOF: the goroutine ends.
ReaderEOF ==
    /\ preader = "reading"
    /\ pwClosed
    /\ FirstNL(pstream) = 0
    /\ progressBytes' = IF pstream # <<>> THEN CountLine(pstream) ELSE progressBytes
    /\ pstream' = <<>>
    /\ preader' = "done"
    /\ UNCHANGED <<gpc, pmode, wlines, wpipe, pwClosed, emitted, aggBytes>>
    /\ ProgOnly

\* The final select takes <-workersFinished: the workers' records are summed
\* and BytesReceived is overridden by the progress counter if that is positive.
Aggregate ==
    /\ gpc = "running"
    /\ preader = "done"
    /\ \E st \in [Workers -> RecvValues] :
        aggBytes' = IF progressBytes > 0 THEN progressBytes ELSE SumOver(st, Workers)
    /\ gpc' = "returned"
    /\ UNCHANGED <<pmode, wlines, wpipe, pstream, pwClosed, preader, progressBytes, emitted>>
    /\ ProgOnly

NextProg ==
    \/ \E w \in Workers : RsyncPrint(w)
    \/ \E w \in Workers : CopyChunk(w)
    \/ ReaderLine \/ ClosePipes \/ ReaderEOF \/ Aggregate

InitSpecProg == IdleRun /\ IdlePar /\ IdleLock /\ InitProg /\ IdleAdd /\ IdleRest

SpecProg == InitSpecProg /\ [][NextProg]_vars

\* C13: after a successful RunParallel the aggregate's BytesReceived equals
\* the terminal value of the progress counter.
C13_AggregateIsProgressCounter ==
    gpc = "returned" => aggBytes = progressBytes

\* C14: the progress counter never decreases, and when the run has completed
\* it equals the sum of the sizes of all stdout lines the workers emitted.
C14_CounterMonotoneAndExact ==
    [][/\ progressBytes' >= progressBytes
       /\ preader' = "done" => progressBytes' = emitted]_vars

\* C14, plain mode only: the counter, which the code maintains in plain mode,
\* ends at the sum of the emitted sizes whatever the interleaving of the
\* workers' writes.
C14_PlainCounterExact ==
    (pmode = "plain" /\ preader = "done") => progressBytes = emitted

(***************************************************************************)
(*                              Stats.Add                                  *)
(*                                                                         *)
(* Add applied to three records a, b, c of the kind ParseStats yields      *)
(* (counters and seconds that are not negative): a+b and b+a, (a+b)+c and  *)
(* a+(b+c), a+0 and 0+a, and the fold from the zero Stats over every       *)
(* order of arrival of a, b, c.                                            *)
(***************************************************************************)

maxFloat(a, b) == IF a > b THEN a ELSE b

\* Mutant: FileListGenSeconds is summed like the other fields.
Add_genSummed(s, other) ==
    [ NumFiles |-> s.NumFiles + other.NumFiles,
      CreatedFiles |-> s.CreatedFiles + other.CreatedFiles,
      DeletedFiles |-> s.DeletedFiles + other.DeletedFiles,
      RegTransferred |-> s.RegTransferred + other.RegTransferred,
      TotalFileSize |-> s.TotalFileSize + other.TotalFileSize,
      TotalTransferredSize |-> s.TotalTransferredSize + other.TotalTransferredSize,
      LiteralData |-> s.LiteralData + other.LiteralData,
      MatchedData |-> s.MatchedData + other.MatchedData,
      RegFiles |-> s.RegFiles + other.RegFiles,
      DirFiles |-> s.DirFiles + other.DirFiles,
      LinkFiles |-> s.LinkFiles + other.LinkFiles,
      FileListSize |-> s.FileListSize + other.FileListSize,
      FileListGenSeconds |-> s.FileListGenSeconds + other.FileListGenSeconds,
      BytesSent |-> s.BytesSent + other.BytesSent,
      BytesReceived |-> s.BytesReceived + other.BytesReceived,
      CreatedReg |-> s.CreatedReg + other.CreatedReg,
      CreatedDir |-> s.CreatedDir + other.CreatedDir,
      DeletedReg |-> s.DeletedReg + other.DeletedReg,
      DeletedDir |-> s.DeletedDir + other.DeletedDir ]

Add(s, other) ==
    [ NumFiles |-> s.NumFiles + other.NumFiles,
      CreatedFiles |-> s.CreatedFiles + other.CreatedFiles,
      DeletedFiles |-> s.DeletedFiles + other.DeletedFiles,
      RegTransferred |-> s.RegTransferred + other.RegTransferred,
      TotalFileSize |-> s.TotalFileSize + other.TotalFileSize,
      TotalTransferredSize |-> s.TotalTransferredSize + other.TotalTransferredSize,
      LiteralData |-> s.LiteralData + other.LiteralData,
      MatchedData |-> s.MatchedData + other.MatchedData,
      RegFiles |-> s.RegFiles + other.RegFiles,
      DirFiles |-> s.DirFiles + other.DirFiles,
      LinkFiles |-> s.LinkFiles + other.LinkFiles,
      FileListSize |-> s.FileListSize + other.FileListSize,
      FileListGenSeconds |-> maxFloat(s.FileListGenSeconds, other.FileListGenSeconds),
      BytesSent |-> s.BytesSent + other.BytesSent,
      BytesReceived |-> s.BytesReceived + other.BytesReceived,
      CreatedReg |-> s.CreatedReg + other.CreatedReg,
      CreatedDir |-> s.CreatedDir + other.CreatedDir,
      DeletedReg |-> s.DeletedReg + other.DeletedReg,
      DeletedDir |-> s.DeletedDir + other.DeletedDir ]

\* The integer counters of Stats.
IntFields == {"NumFiles", "CreatedFiles", "DeletedFiles", "RegTransferred", "TotalFileSize", "TotalTransferredSize", "LiteralData", "MatchedData", "RegFiles", "DirFiles", "LinkFiles", "FileListSize", "BytesSent", "BytesReceived", "CreatedReg", "CreatedDir", "DeletedReg", "DeletedDir"}

NumIntFields == Cardinality(IntFields)

\* The zero value Stats{}.
ZeroStats ==
    [ NumFiles |-> 0,
      CreatedFiles |-> 0,
      DeletedFiles |-> 0,
      RegTransferred |-> 0,
      TotalFileSize |-> 0,
      TotalTransferredSize |-> 0,
      LiteralData |-> 0,
      MatchedData |-> 0,
      RegFiles |-> 0,
      DirFiles |-> 0,
      LinkFiles |-> 0,
      FileListSize |-> 0,
      FileListGenSeconds |-> 0,
      BytesSent |-> 0,
      BytesReceived |-> 0,
      CreatedReg |-> 0,
      CreatedDir |-> 0,
      DeletedReg |-> 0,
      DeletedDir |-> 0 ]

\* A record whose integer counters all differ: scale x, generation time g.
MkStats(x, g) ==
    [ NumFiles |-> x * NumIntFields + 1,
      CreatedFiles |-> x * NumIntFields + 2,
      DeletedFiles |-> x * NumIntFields + 3,
      RegTransferred |-> x * NumIntFields + 4,
      TotalFileSize |-> x * NumIntFields + 5,
      TotalTransferredSize |-> x * NumIntFields + 6,
      LiteralData |-> x * NumIntFields + 7,
      MatchedData |-> x * NumIntFields + 8,
      RegFiles |-> x * NumIntFields + 9,
      DirFiles |-> x * NumIntFields + 10,
      LinkFiles |-> x * NumIntFields + 11,
      FileListSize |-> x * NumIntFields + 12,
      BytesSent |-> x * NumIntFields + 13,
      BytesReceived |-> x * NumIntFields + 14,
      CreatedReg |-> x * NumIntFields + 15,
      CreatedDir |-> x * NumIntFields + 16,
      DeletedReg |-> x * NumIntFields + 17,
      DeletedDir |-> x * NumIntFields + 18,
      FileListGenSeconds |-> g ]

StatsInputs == {MkStats(x, g) : x \in 0..MaxStat, g \in 0..MaxGen}

\* statsLoop: total = total.Add(st) for the records in their order of arrival.
RECURSIVE FoldAdd(_, _)
FoldAdd(total, q) == IF q = <<>> THEN total ELSE FoldAdd(Add(total, Head(q)), Tail(q))

\* The orders in which three records can arrive.
Orders3 == {<<1, 2, 3>>, <<1, 3, 2>>, <<2, 1, 3>>, <<2, 3, 1>>, <<3, 1, 2>>, <<3, 2, 1>>}

InitAdd ==
    \E a \in StatsInputs, b \in StatsInputs, c \in StatsInputs :
        addt = [a |-> a, b |-> b, c |-> c, pair |-> <<>>, triple |-> <<>>,
                zero |-> <<>>, folds |-> {}]

AddOnly == UNCHANGED <<runVars, parVars, lockVars, progVars, dist, stopVars, fin, boot, wrs, extraVars>>

\* a.Add(b) and b.Add(a).
AddPair ==
    /\ addt.pair = <<>>
    /\ addt' = [addt EXCEPT !.pair = <<Add(addt.a, addt.b), Add(addt.b, addt.a)>>]
    /\ AddOnly

\* a.Add(b).Add(c) and a.Add(b.Add(c)).
AddTriple ==
    /\ addt.triple = <<>>
    /\ addt' = [addt EXCEPT !.triple = <<Add(Add(addt.a, addt.b), addt.c),
                                          Add(addt.a, Add(addt.b, addt.c))>>]
    /\ AddOnly

\* a.Add(Stats{}) and Stats{}.Add(a).
AddZero ==
    /\ addt.zero = <<>>
    /\ addt' = [addt EXCEPT !.zero = <<Add(addt.a, ZeroStats), Add(ZeroStats, addt.a)>>]
    /\ AddOnly

\* The aggregate of the three records for every order of arrival.
AddFolds ==
    /\ addt.folds = {}
    /\ LET r == <<addt.a, addt.b, addt.c>> IN
        addt' = [addt EXCEPT !.folds =
                    {FoldAdd(ZeroStats, <<r[p[1]], r[p[2]], r[p[3]]>>) : p \in Orders3}]
    /\ AddOnly

NextAdd == AddPair \/ AddTriple \/ AddZero \/ AddFolds

InitSpecAdd == IdleRun /\ IdlePar /\ IdleLock /\ IdleProg /\ InitAdd /\ IdleRest

SpecAdd == InitSpecAdd /\ [][NextAdd]_vars

Rank(e) == CASE e = "recv" -> 1 [] e = "daemon" -> 2 [] e = "ssh" -> 3 [] e = "tmp" -> 4

Count(seq, e) == Cardinality({i \in DOMAIN seq : seq[i] = e})

\* C1: the pg_backup_start query is issued only after WaitReplicationStarted
\* has returned success, and the pg_backup_stop query of the backup-stop phase
\* only after the initial sweep, the base sweep and the sweep of every listed
\* tablespace (none pending, running or failed; one with an empty listing is
\* skipped by the code) have returned success.
C1_BackupOrdering ==
    /\ hist.backupStartIssued => hist.replOK
    /\ hist.backupStopIssued > 0 =>
          /\ hist.backupStartOK
          /\ hist.initial = "ok"
          /\ hist.base = "ok"
          /\ \A t \in 1..o.tablespaces : hist.spc[t] \in {"ok", "skipped"}

C1_Witness ==
    /\ hist.backupStopIssued > 0
    /\ o.tablespaces = 2
    /\ hist.spc[1] = "ok"
    /\ hist.spc[2] = "ok"

\* C2 (as amended): in WAL finalize the receiver is stopped only after the
\* segment file has been observed; files are moved and the .partial renamed
\* only after the receiver's Stop has returned; the wait loop fails the run as
\* soon as a poll misses the segment with the 60 s deadline passed, and then
\* finalize neither stops the receiver, moves nor renames anything. A segment
\* found by the one poll made after the deadline is still accepted.
C2_WalFinalizeOrdering ==
    /\ hist.finStop # "no" => hist.segSeen
    /\ (world.walMoved \/ world.partialRenamed) => hist.finStop = "returned"
    /\ pc = "WalWait" => elapsed <= WalWaitBudget + WalPollSleep
    /\ hist.walTimeout =>
          /\ result = "err"
          /\ ~hist.segSeen
          /\ hist.finStop = "no"
          /\ ~world.walMoved
          /\ ~world.partialRenamed

C2_Witness ==
    /\ world.partialRenamed
    /\ world.walMoved
    /\ hist.finStop = "returned"
    /\ recv.signals = 1

\* C2 (as claimed): as above, and a segment not observed within the 60 s
\* budget makes Run fail, that is, finalize never goes on with a segment it
\* observed only after the budget.
C2_AsClaimed ==
    /\ C2_WalFinalizeOrdering
    /\ ~hist.seenLate

\* C4: if pg_backup_start succeeded and Run returns an error, pg_backup_stop
\* was attempted before Run returned.
C4_BackupStopOnFailure ==
    (pc = "returned" /\ hist.backupStartOK /\ result # "ok") => hist.backupStopIssued > 0

\* C5: when Run has returned, the WAL receiver is stopped, the daemon's stop
\* has been invoked if a handle was created, the SSH client is closed whenever
\* the dial succeeded, the Postgres connection is closed and the owned temp
\* dir is removed unless KeepRunTmp.
C5_AllReleased ==
    pc = "returned" =>
        /\ world.recvProc # "running"
        /\ hist.daemonCreated => Count(hist.teardown, "daemon") >= 1
        /\ hist.sshDialed => world.ssh = "closed"
        /\ world.conn # "open"
        /\ world.tmpDir = "exists" => cfg.KeepRunTmp

\* C6: however many times Close is called, each resource is released at most
\* once (the receiver is signalled at most once), the releases happen in the
\* order receiver stop, daemon stop, SSH close, temp-dir removal, the daemon's
\* stop is invoked exactly once if a handle was created, and never on a closed
\* SSH client.
C6_TeardownOnceInOrder ==
    /\ \A i, j \in DOMAIN hist.teardown :
          i < j => Rank(hist.teardown[i]) < Rank(hist.teardown[j])
    /\ recv.signals <= 1
    /\ ~hist.stopOnClosedSsh
    /\ (pc = "returned" /\ hist.daemonCreated) => Count(hist.teardown, "daemon") = 1

C6_Witness ==
    /\ pc = "returned"
    /\ closeCalls >= 2
    /\ hist.teardown = <<"recv", "daemon", "ssh", "tmp">>

\* C7: if the root context is cancelled while a module transfer is running,
\* Run returns the cancellation error and by then the WAL receiver has exited,
\* the remote daemon has been killed and the remote temp dir removed.
C7_CancelDuringTransfer ==
    (pc = "returned" /\ hist.cancelInTransfer) =>
        /\ result = "cancelled"
        /\ world.recvProc # "running"
        /\ world.daemon = "killed"
        /\ world.remoteDir = "removed"

\* C9: with a non-empty replica directory and --drop-existing not set, no
\* backup is started, no remote daemon is launched and nothing in the replica
\* directory is deleted.
C9_FailEarly ==
    (cfg.replicaNonEmpty /\ ~cfg.DropExisting) =>
        /\ ~hist.backupStartIssued
        /\ world.daemon = "none"
        /\ ~world.replicaDeleted

\* The three poll loops of the orchestrator.
PollLoops == {"WaitReplicationStarted", "PortPoll", "WalWait"}

\* C12: an iteration of the replication-start poll, of the PORT poll loop or of
\* the WAL-segment wait loop that runs after the root context was cancelled
\* ends the loop and goes to teardown: it neither sleeps once more nor goes on
\* with the pipeline.
C12_CancelEndsPolling ==
    [][(ctxCancelled /\ pc \in PollLoops /\ (pc' # pc \/ elapsed' # elapsed))
            => pc' = "Close_recv"]_vars

(***************************************************************************)
(*                 DISTRIBUTE (internal/rsync, Distribute)                 *)
(* One call of Distribute(files, workers).  Sizes are counted in MiB; the  *)
(* function only compares sizes with the threshold and adds them up.       *)
(***************************************************************************)

MaxFiles == 4
MaxDistWorkers == 3

\* threshold := int64(1024 * 1024 * 1024), in MiB.
threshold == 1024

DistPaths == {"a", "b"}
DistSizes == {1, threshold, threshold + 1}
FileInfos == [Path : DistPaths, Size : DistSizes]
FileLists == UNION {[1..n -> FileInfos] : n \in 0..MaxFiles}

RemoveAt(fs, i) == SubSeq(fs, 1, i - 1) \o SubSeq(fs, i + 1, Len(fs))

\* sort.Slice(files, Size descending): the sort is not stable, any order of
\* the files of equal size can result.
RECURSIVE SortResults(_)
SortResults(fs) ==
    IF fs = <<>> THEN {<<>>}
    ELSE LET tops == {i \in DOMAIN fs : \A j \in DOMAIN fs : fs[j].Size <= fs[i].Size}
         IN UNION {{<<fs[i]>> \o r : r \in SortResults(RemoveAt(fs, i))} : i \in tops}

\* minWorker: the first worker whose total is the smallest.
minWorker(totals, workers) ==
    CHOOSE m \in 0..(workers - 1) :
        /\ \A i \in 0..(workers - 1) : totals[m] <= totals[i]
        /\ \A i \in 0..(m - 1) : totals[i] > totals[m]

\* The loop with the files at exactly the threshold left out.
RECURSIVE DistLoop_skipsAtThreshold(_, _, _, _, _)
DistLoop_skipsAtThreshold(fs, out, totals, cur, workers) ==
    IF fs = <<>> THEN out
    ELSE LET f == Head(fs) IN
         IF f.Size > threshold
         THEN LET m == minWorker(totals, workers) IN
              DistLoop_skipsAtThreshold(Tail(fs), [out EXCEPT ![m] = Append(@, f)],
                       [totals EXCEPT ![m] = @ + f.Size], cur, workers)
         ELSE IF f.Size = threshold
         THEN DistLoop_skipsAtThreshold(Tail(fs), out, totals, cur, workers)
         ELSE DistLoop_skipsAtThreshold(Tail(fs), [out EXCEPT ![cur] = Append(@, f)],
                       [totals EXCEPT ![cur] = @ + f.Size], (cur + 1) % workers, workers)

\* for _, f := range files: a file above the threshold goes to the worker
\* with the smallest total, any other file to worker cur, which then advances.
RECURSIVE DistLoop(_, _, _, _, _)
DistLoop(fs, out, totals, cur, workers) ==
    IF fs = <<>> THEN out
    ELSE LET f == Head(fs) IN
         IF f.Size > threshold
         THEN LET m == minWorker(totals, workers) IN
              DistLoop(Tail(fs), [out EXCEPT ![m] = Append(@, f)],
                       [totals EXCEPT ![m] = @ + f.Size], cur, workers)
         ELSE DistLoop(Tail(fs), [out EXCEPT ![cur] = Append(@, f)],
                       [totals EXCEPT ![cur] = @ + f.Size], (cur + 1) % workers, workers)

\* Distribute on the sorted slice: the buckets, indexed from 0.  The nil
\* slice returned for workers <= 0 is the function with no bucket.
Distribute(sorted, workers) ==
    IF workers <= 0 THEN <<>>
    ELSE DistLoop(sorted, [w \in 0..(workers - 1) |-> <<>>],
                  [w \in 0..(workers - 1) |-> 0], 0, workers)

InitDist ==
    \E L \in FileLists, workers \in 0..MaxDistWorkers :
        dist = [L |-> L, files |-> L, workers |-> workers, called |-> FALSE, out |-> <<>>]

DistOnly == UNCHANGED <<runVars, parVars, lockVars, progVars, addt, stopVars, fin, boot, wrs, extraVars>>

\* One call.  The caller's slice is sorted in place unless the function
\* returns before the sort (workers <= 0, or no file).
DistributeCall ==
    /\ ~dist.called
    /\ \E sorted \in SortResults(dist.files) :
        dist' = [dist EXCEPT !.called = TRUE,
                             !.files = IF dist.workers <= 0 THEN @ ELSE sorted,
                             !.out = Distribute(sorted, dist.workers)]
    /\ DistOnly

NextDist == DistributeCall

InitSpecDist == IdleRun /\ IdlePar /\ IdleLock /\ IdleProg /\ IdleAdd /\ InitDist /\ IdleStop /\ IdleFin /\ IdleBoot /\ IdleWait /\ IdleExtra

SpecDist == InitSpecDist /\ [][NextDist]_vars

\* The buckets 0..n-1 one after the other.
RECURSIVE Concat(_, _)
Concat(out, n) == IF n = 0 THEN <<>> ELSE Concat(out, n - 1) \o out[n - 1]

RECURSIVE SumSizes(_)
SumSizes(b) == IF b = <<>> THEN 0 ELSE Head(b).Size + SumSizes(Tail(b))

BucketTotals == {SumSizes(dist.out[w]) : w \in DOMAIN dist.out}

SetMax(S) == CHOOSE x \in S : \A y \in S : y <= x
SetMin(S) == CHOOSE x \in S : \A y \in S : x <= y

\* C18: for a worker count N >= 1 Distribute returns exactly N buckets, and
\* every file occurs in the buckets together as many times as in the list
\* that was passed.
C18_BucketsPartitionInput ==
    (dist.called /\ dist.workers >= 1) =>
        /\ DOMAIN dist.out = 0..(dist.workers - 1)
        /\ \A v \in FileInfos :
              Count(Concat(dist.out, dist.workers), v) = Count(dist.L, v)

C18_Witness ==
    /\ dist.called /\ dist.workers = MaxDistWorkers /\ Len(dist.L) = MaxFiles
    /\ \E i, j \in DOMAIN dist.L : i # j /\ dist.L[i] = dist.L[j]
    /\ \E i, j \in DOMAIN dist.L : dist.L[i].Size > threshold /\ dist.L[j].Size = threshold
    /\ dist.files # dist.L

\* C19: when there are at least as many files as workers, the largest and
\* the smallest bucket total differ by at most the size of the largest file.
C19_ImbalanceAtMostLargestFile ==
    (dist.called /\ dist.workers >= 1 /\ dist.workers <= Len(dist.L)) =>
        SetMax(BucketTotals) - SetMin(BucketTotals)
            <= SetMax({dist.L[i].Size : i \in DOMAIN dist.L})

\* The bound of C19 for the lists that do not mix the two rules.
C19_UnmixedListsBalanced ==
    (/\ dist.called /\ dist.workers >= 1 /\ dist.workers <= Len(dist.L)
     /\ \/ \A i \in DOMAIN dist.L : dist.L[i].Size > threshold
        \/ \A i \in DOMAIN dist.L : dist.L[i].Size <= threshold) =>
        SetMax(BucketTotals) - SetMin(BucketTotals)
            <= SetMax({dist.L[i].Size : i \in DOMAIN dist.L})

(***************************************************************************)
(*                 RECEIVER.STOP (internal/wal/receiver.go)                *)
(* One Receiver, its pg_receivewal process with the goroutine that waits   *)
(* for it, and several goroutines calling Stop.                            *)
(***************************************************************************)

NumStoppers == 3
MaxStarts == 2

Stoppers == 1..NumStoppers

InitStop ==
    /\ spc = [c \in Stoppers |-> "idle"]
    /\ sret = [c \in Stoppers |-> "none"]
    /\ sdid = [c \in Stoppers |-> [sig |-> 0, drop |-> 0]]
    /\ sorder = <<>>
    /\ startedAt = [c \in Stoppers |-> FALSE]
    /\ rcvCmd = FALSE /\ rcvClosed = FALSE
    /\ rcvSlot \in BOOLEAN
    /\ rcvProc = "none"
    /\ startRes = <<>> /\ launched = 0

StopOnly == UNCHANGED <<runVars, parVars, lockVars, progVars, addt, dist, fin, boot, wrs, extraVars>>

\* Start with the test of r.cmd left out.
ReceiverStart_noCmdCheck ==
    /\ Len(startRes) < MaxStarts
    /\ \E out \in {"ok", "err"} :
        /\ startRes' = Append(startRes, out)
        /\ IF out = "ok"
           THEN /\ rcvCmd' = TRUE
                /\ rcvProc' = "running"
                /\ launched' = launched + 1
           ELSE UNCHANGED <<rcvCmd, rcvProc, launched>>
    /\ UNCHANGED <<spc, sret, sdid, sorder, startedAt, rcvClosed, rcvSlot>>
    /\ StopOnly

\* Receiver.Start, under r.mu for the whole call: "already started" when
\* r.cmd is set; otherwise an error of MkdirAll, LookPath, os.Create or
\* cmd.Start (nothing launched, r.cmd stays nil), or cmd.Start succeeds,
\* r.cmd = cmd and the goroutine that calls cmd.Wait is launched.
ReceiverStart ==
    /\ Len(startRes) < MaxStarts
    /\ \E out \in IF rcvCmd THEN {"err"} ELSE {"ok", "err"} :
        /\ startRes' = Append(startRes, out)
        /\ IF out = "ok"
           THEN /\ rcvCmd' = TRUE
                /\ rcvProc' = "running"
                /\ launched' = launched + 1
           ELSE UNCHANGED <<rcvCmd, rcvProc, launched>>
    /\ UNCHANGED <<spc, sret, sdid, sorder, startedAt, rcvClosed, rcvSlot>>
    /\ StopOnly

\* pg_receivewal exits: on the interrupt, on the kill that follows the
\* cancellation of Start's context, or by itself.
ReceiverProcExit ==
    /\ rcvProc = "running"
    /\ rcvProc' = "zombie"
    /\ UNCHANGED <<spc, sret, sdid, sorder, startedAt, rcvCmd, rcvClosed, rcvSlot, startRes, launched>>
    /\ StopOnly

\* The goroutine of Start: cmd.Wait returns, then wg.Done.
WaiterReap ==
    /\ rcvProc = "zombie"
    /\ rcvProc' = "reaped"
    /\ UNCHANGED <<spc, sret, sdid, sorder, startedAt, rcvCmd, rcvClosed, rcvSlot, startRes, launched>>
    /\ StopOnly

\* Stop, the section under r.mu and the nil test that follows it.
StopEnter(c) ==
    /\ spc[c] = "idle"
    /\ sorder' = Append(sorder, c)
    /\ startedAt' = [startedAt EXCEPT ![c] = rcvCmd]
    /\ IF rcvClosed
       THEN /\ spc' = [spc EXCEPT ![c] = "returned"]
            /\ sret' = [sret EXCEPT ![c] = "nil"]
            /\ UNCHANGED rcvClosed
       ELSE /\ rcvClosed' = TRUE
            /\ IF rcvCmd
               THEN /\ spc' = [spc EXCEPT ![c] = "signal"]
                    /\ UNCHANGED sret
               ELSE /\ spc' = [spc EXCEPT ![c] = "returned"]
                    /\ sret' = [sret EXCEPT ![c] = "nil"]
    /\ UNCHANGED <<sdid, rcvCmd, rcvSlot, rcvProc, startRes, launched>>
    /\ StopOnly

\* cmd.Process.Signal(os.Interrupt): os.ErrProcessDone once Wait has
\* returned, and Stop returns it; otherwise the signal is sent (to a process
\* that has exited and is not yet waited for, too).
StopSignal(c) ==
    /\ spc[c] = "signal"
    /\ IF rcvProc = "reaped"
       THEN /\ spc' = [spc EXCEPT ![c] = "returned"]
            /\ sret' = [sret EXCEPT ![c] = "err"]
            /\ UNCHANGED sdid
       ELSE /\ spc' = [spc EXCEPT ![c] = "wait"]
            /\ sdid' = [sdid EXCEPT ![c].sig = @ + 1]
            /\ UNCHANGED sret
    /\ UNCHANGED <<sorder, startedAt, rcvCmd, rcvClosed, rcvSlot, rcvProc, startRes, launched>>
    /\ StopOnly

\* select on done (r.wg.Wait has returned), then drop-slot when r.Slot is
\* set, return nil.  context.Background() is never done.
StopWait(c) ==
    /\ spc[c] = "wait"
    /\ rcvProc = "reaped"
    /\ sdid' = [sdid EXCEPT ![c].drop = IF rcvSlot THEN @ + 1 ELSE @]
    /\ spc' = [spc EXCEPT ![c] = "returned"]
    /\ sret' = [sret EXCEPT ![c] = "nil"]
    /\ UNCHANGED <<sorder, startedAt, rcvCmd, rcvClosed, rcvSlot, rcvProc, startRes, launched>>
    /\ StopOnly

NextStop ==
    \/ ReceiverStart
    \/ ReceiverProcExit
    \/ WaiterReap
    \/ \E c \in Stoppers : StopEnter(c)
    \/ \E c \in Stoppers : StopSignal(c)
    \/ \E c \in Stoppers : StopWait(c)

InitSpecStop == IdleRun /\ IdlePar /\ IdleLock /\ IdleProg /\ IdleAdd /\ IdleDist /\ InitStop /\ IdleFin /\ IdleBoot /\ IdleWait /\ IdleExtra

SpecStop == InitSpecStop /\ [][NextStop]_vars

\* C20: the first Stop on a started receiver, once returned, has sent one
\* interrupt, the process has exited and been waited for, and it has run
\* drop-slot once if a slot is set and not otherwise; every other Stop has
\* returned nil, sent no signal and run no drop-slot.
C20_StopIdempotent ==
    \A c \in Stoppers : spc[c] = "returned" =>
        IF sorder[1] = c
        THEN startedAt[c] =>
                /\ sret[c] = "nil"
                /\ sdid[c].sig = 1
                /\ rcvProc = "reaped"
                /\ sdid[c].drop = (IF rcvSlot THEN 1 ELSE 0)
        ELSE sret[c] = "nil" /\ sdid[c].sig = 0 /\ sdid[c].drop = 0

\* The second half of C20 alone: a Stop that is not the first one returns
\* nil and neither signals nor drops the slot, also while the first one is
\* still waiting.
C20_LaterStopsInert ==
    \A c \in Stoppers : (spc[c] = "returned" /\ sorder[1] # c) =>
        sret[c] = "nil" /\ sdid[c].sig = 0 /\ sdid[c].drop = 0

\* The first half of C20 when the process is still there at the signal.
C20_FirstStopOnLiveProcess ==
    \A c \in Stoppers : (spc[c] = "returned" /\ sdid[c].sig > 0) =>
        /\ sorder[1] = c /\ sret[c] = "nil" /\ sdid[c].sig = 1 /\ rcvProc = "reaped"
        /\ sdid[c].drop = (IF rcvSlot THEN 1 ELSE 0)

\* C34: with a slot set, the first Stop on a started receiver, once
\* returned, has issued drop-slot and the process had exited by then, also
\* when the process had exited by itself before Stop.
C34_DropSlotAfterExit ==
    \A c \in Stoppers :
        (spc[c] = "returned" /\ sorder[1] = c /\ startedAt[c] /\ rcvSlot) =>
            (sdid[c].drop = 1 /\ rcvProc = "reaped")

\* C34 (what holds): drop-slot is issued only once the process has exited
\* and been waited for, and by a Stop that returns nil.
C34_DropOnlyAfterExit ==
    \A c \in Stoppers : sdid[c].drop > 0 =>
        (rcvSlot /\ rcvProc = "reaped" /\ sdid[c].drop = 1 /\ sret[c] = "nil")

\* C39: once some Stop has returned nil, no subprocess of the Receiver is
\* running, whatever the order of the Start and Stop calls.
C39_NoProcessAfterStop ==
    (\E c \in Stoppers : spc[c] = "returned" /\ sret[c] = "nil") => rcvProc # "running"

\* C39 (what holds): a Stop that sent the interrupt returns only after the
\* process has exited and been waited for, and no second process is
\* launched after it.
C39_SignalledStopEnds ==
    \A c \in Stoppers : (spc[c] = "returned" /\ sdid[c].sig > 0) =>
        (rcvProc = "reaped" /\ launched = 1)

\* C22: with UseSlot set, a receiver that was started has a non-empty slot
\* name, and once the run is over that slot has been dropped.
C22_SlotUsedAndDropped ==
    (cfg.UseSlot /\ recv.cmd) =>
        /\ recv.slot # ""
        /\ pc = "returned" => recv.drops = 1

\* C24: Run returns success only if backup_label was written and, when the
\* backup-stop result carries a tablespace map, tablespace_map was written.
C24_LabelAndMapWritten ==
    result = "ok" => hist.labelWritten /\ ~hist.mapLost

\* Positions inside Close, and after Run has returned.
\* C33: Run returns success only when the listing of the user tablespaces
\* was read to its end and every tablespace was swept; a listing cut short
\* by an iteration error does not end in success.
C33_AllTablespacesSwept ==
    result = "ok" =>
        /\ ~hist.tsTruncated
        /\ \A t \in 1..o.tablespaces : hist.spc[t] \in {"ok", "skipped"}

\* C33 (what holds): on success every tablespace that was appended to
\* o.tablespaces has been listed and, unless its listing was empty, swept.
C33_ListedAreSwept ==
    result = "ok" => \A t \in 1..o.tablespaces : hist.spc[t] \in {"ok", "skipped"}

TeardownPcs == {"Close_recv", "Close_daemon", "Close_ssh", "Close_tmp", "returned"}

\* C25: Run's error is set by the phase that fails, at which point teardown
\* starts and no further phase runs; once set, Run's result (success
\* included) is never changed by teardown, whatever fails there.
C25_FirstErrorKept ==
    [][/\ (result = "none" /\ result' # "none") =>
            pc \notin TeardownPcs /\ pc' = "Close_recv"
       /\ result # "none" => (result' = result /\ pc' \in TeardownPcs)
       /\ (pc \in TeardownPcs) => result # "none"]_vars

C25_Witness ==
    /\ pc = "returned" /\ result = "ok"
    /\ hist.stopKilled /\ world.remoteDir # "removed"

\* What the run has done to the replica data directory and the replica WAL
\* directory.
ReplicaState == <<world.replicaDeleted, world.walMoved, world.partialRenamed, world.chmodDone>>

\* C26: when final validation fails Run returns an error, and neither the
\* failing validation step nor anything after it changes the replica data
\* directory or the replica WAL directory.
C26_FailedValidationLeavesReplica ==
    [][/\ (pc = "FinalChecks" /\ hist'.finalFailed) =>
            (result' = "err" /\ ReplicaState' = ReplicaState)
       /\ hist.finalFailed => (result = "err" /\ ReplicaState' = ReplicaState)]_vars

C26_Witness ==
    /\ hist.finalFailed /\ pc = "returned" /\ world.walMoved /\ world.partialRenamed
    /\ world.tmpDir = "removed" /\ ~world.chmodDone

\* C27: a caller-supplied TempWALDir is never removed; the WAL temp dir is
\* removed only when the orchestrator made it and KeepRunTmp is false; with
\* KeepRunTmp the directory the orchestrator made stays.
C27_TempDirRemovedOnlyIfOwned ==
    /\ world.callerDir # "removed"
    /\ world.tmpDir = "removed" => (~cfg.TempWALDir /\ ~cfg.KeepRunTmp)
    /\ (cfg.KeepRunTmp /\ world.tmpDir # "none") => world.tmpDir = "exists"
    /\ cfg.TempWALDir => world.tmpDir = "none"

C27_Witness ==
    /\ pc = "returned" /\ cfg.TempWALDir /\ ~cfg.KeepRunTmp
    /\ world.callerDir = "exists" /\ hist.teardown # <<>>

\* C28: when Run has returned, the remote temp dir the bootstrap made does
\* not exist and no daemon it launched is running.
C28_RemoteStateGone ==
    pc = "returned" => (world.remoteDir # "exists" /\ world.daemon # "running")

\* The same on the runs that are not cancelled and got the daemon's handle.
C28_GoneWhenHandleReturned ==
    (pc = "returned" /\ hist.daemonCreated /\ ~ctxCancelled) =>
        (world.remoteDir # "exists" /\ world.daemon # "running")

\* C21: a Receiver launches at most one subprocess, and every Start that
\* follows a successful Start on the same instance returns an error.
C21_StartOnce ==
    /\ launched <= 1
    /\ \A i, j \in DOMAIN startRes : (j < i /\ startRes[j] = "ok") => startRes[i] = "err"

C21_Witness ==
    /\ Len(startRes) >= 2 /\ startRes[1] = "ok" /\ startRes[2] = "err"
    /\ launched = 1 /\ rcvProc = "running"

(***************************************************************************)
(*        WAL FINALIZE: MOVE AND RENAME (orchestrator.go, stepWalFinalize) *)
(* The part of stepWalFinalize that follows the stop of the receiver, on   *)
(* the names held by the WAL temp dir and by the replica WAL dir.          *)
(***************************************************************************)

MaxSeg == 3

\* A segment file name: the segment, with or without the ".partial" suffix.
SegNames == [seg : 1..MaxSeg, partial : BOOLEAN]

\* pg_receivewal.log, which Receiver.Start creates in the WAL dir.
LogFile == [seg |-> MaxSeg + 1, partial |-> FALSE]

\* Position of a name in the byte order of the names (os.ReadDir,
\* sort.Strings): X before X.partial before the next segment, the log last.
NameKey(n) == 2 * n.seg + (IF n.partial THEN 1 ELSE 0)

First(S) == CHOOSE n \in S : \A m \in S : NameKey(n) <= NameKey(m)
Last(S) == CHOOSE n \in S : \A m \in S : NameKey(m) <= NameKey(n)

\* filepath.Glob(dstWal/*.partial)
GlobPartial(dir) == {n \in dir : n.partial}

\* strings.TrimSuffix(last, ".partial")
TrimSuffix(n) == [n EXCEPT !.partial = FALSE]

\* The temp dir holds the log and the segment whose name pg_walfile_name
\* gave (the wait loop has seen it); the replica WAL dir holds whatever an
\* earlier use of the directory left: pg_wal is excluded from the sweeps.
InitFin ==
    \E t \in SUBSET SegNames, d \in SUBSET SegNames :
        /\ \E n \in t : ~n.partial
        /\ fin = [tmp |-> t \cup {LogFile}, dst |-> d,
                  tmp0 |-> t \cup {LogFile}, dst0 |-> d,
                  todo |-> {}, pc |-> "readdir", res |-> "none", ignored |-> FALSE]

FinOnly == UNCHANGED <<runVars, parVars, lockVars, progVars, addt, dist, stopVars, boot, wrs, extraVars>>

\* entries, _ := os.ReadDir(walDir): on an error there is no entry.
FinReadDir ==
    /\ fin.pc = "readdir"
    /\ \E ok \in BOOLEAN :
        fin' = [fin EXCEPT !.todo = IF ok THEN fin.tmp ELSE {},
                           !.ignored = ~ok, !.pc = "move"]
    /\ FinOnly

\* One turn of the loop: os.Rename, or copyFile and os.Remove (whose error is
\* dropped) when it fails; an error of copyFile is returned.
FinMoveEntry ==
    /\ fin.pc = "move" /\ fin.todo # {}
    /\ LET e == First(fin.todo) IN
       \E out \in {"moved", "srcLeft", "err"} :
          fin' = CASE out = "moved" ->
                        [fin EXCEPT !.todo = @ \ {e}, !.tmp = @ \ {e}, !.dst = @ \cup {e}]
                   [] out = "srcLeft" ->
                        [fin EXCEPT !.todo = @ \ {e}, !.dst = @ \cup {e}, !.ignored = TRUE]
                   [] out = "err" ->
                        [fin EXCEPT !.todo = {}, !.pc = "done", !.res = "err"]
    /\ FinOnly

\* After the loop: the greatest name matching *.partial in the replica WAL
\* dir is renamed to the name without the suffix (error dropped); return nil.
FinRenamePartial ==
    /\ fin.pc = "move" /\ fin.todo = {}
    /\ LET partials == GlobPartial(fin.dst) IN
       IF partials = {}
       THEN fin' = [fin EXCEPT !.pc = "done", !.res = "ok"]
       ELSE \E ok \in BOOLEAN :
            fin' = [fin EXCEPT !.pc = "done", !.res = "ok",
                               !.dst = IF ok THEN (@ \ {Last(partials)}) \cup {TrimSuffix(Last(partials))}
                                       ELSE @,
                               !.ignored = @ \/ ~ok]
    /\ FinOnly

NextFin == FinReadDir \/ FinMoveEntry \/ FinRenamePartial

InitSpecFin ==
    /\ IdleRun /\ IdlePar /\ IdleLock /\ IdleProg /\ IdleAdd /\ IdleDist /\ IdleStop
    /\ InitFin /\ IdleBoot /\ IdleWait /\ IdleExtra

SpecFin == InitSpecFin /\ [][NextFin]_vars

\* C23: after a successful finalize in which no error was dropped and the
\* temp dir held a .partial file, the temp dir is empty and the replica WAL
\* dir holds what it held before plus every name of the temp dir, with the
\* one change that the greatest .partial name of the temp dir has lost its
\* suffix.
C23_MovedAndLastPartialStripped ==
    (/\ fin.pc = "done" /\ fin.res = "ok" /\ ~fin.ignored
     /\ GlobPartial(fin.tmp0) # {}) =>
        /\ fin.tmp = {}
        /\ LET g == Last(GlobPartial(fin.tmp0)) IN
           fin.dst = ((fin.dst0 \cup fin.tmp0) \ {g}) \cup {TrimSuffix(g)}

\* What does hold: the same, when the replica WAL dir held no .partial name
\* greater than those of the temp dir.
C23_HoldsWithoutStalePartial ==
    (/\ fin.pc = "done" /\ fin.res = "ok" /\ ~fin.ignored
     /\ GlobPartial(fin.tmp0) # {}
     /\ \A n \in GlobPartial(fin.dst0) :
            NameKey(n) <= NameKey(Last(GlobPartial(fin.tmp0)))) =>
        /\ fin.tmp = {}
        /\ LET g == Last(GlobPartial(fin.tmp0)) IN
           fin.dst = ((fin.dst0 \cup fin.tmp0) \ {g}) \cup {TrimSuffix(g)}

\* With the errors the code drops: a finalize that returns nil can leave
\* entries in the temp dir.
C23_SuccessEmptiesTempDir ==
    (fin.pc = "done" /\ fin.res = "ok") => fin.tmp = {}

(***************************************************************************)
(*        REMOTE BOOTSTRAP: PORT CHOICE (internal/rsync, StartRemote)      *)
(* One call of StartRemote: the defaults, the port scan of the remote      *)
(* script, the PORT file and the poll that reads it back.                  *)
(***************************************************************************)

PortSpan == 3

\* opts.PortMin = 45000 and opts.PortMax = 45100 when left at 0.
DefaultPortMin == 45000
DefaultPortMax == 45100

\* The values of opts.PortMin and opts.PortMax: unset, or a port near the
\* default lower end.
PortOpts == {0} \cup (DefaultPortMin..(DefaultPortMin + PortSpan))

\* The sets of ports of the primary that accept a connection on 127.0.0.1:
\* any set of ports near the lower end, or the whole default range.
InUseSets == (SUBSET (DefaultPortMin..(DefaultPortMin + PortSpan)))
                \cup {DefaultPortMin..DefaultPortMax}

EffPortMin(opts) == IF opts.PortMin = 0 THEN DefaultPortMin ELSE opts.PortMin
EffPortMax(opts) == IF opts.PortMax = 0 THEN DefaultPortMax ELSE opts.PortMax

\* The scan that stops at the first port that accepts a connection.
RECURSIVE ScanPorts_firstInUse(_, _, _)
ScanPorts_firstInUse(p, max, inUse) ==
    IF p > max THEN 0
    ELSE IF p \in inUse THEN p
    ELSE ScanPorts_firstInUse(p + 1, max, inUse)

\* for p in $(seq min max): the first p to which the connection fails; 0
\* stands for PORT="" after the loop.
RECURSIVE ScanPorts(_, _, _)
ScanPorts(p, max, inUse) ==
    IF p > max THEN 0
    ELSE IF p \notin inUse THEN p
    ELSE ScanPorts(p + 1, max, inUse)

\* The poll's reading of the PORT file: ^\d+$ on the trimmed text, then
\* Sscanf("%d") and port > 0; 0 when the text is not accepted.
ReadPort(text) ==
    IF text # <<>> /\ \A i \in DOMAIN text : IsDigit(text[i])
    THEN ParseFrom(text, 1, 0, FALSE).n
    ELSE 0

InitBoot ==
    \E mn \in PortOpts, mx \in PortOpts, used \in InUseSets :
        boot = [opts |-> [PortMin |-> mn, PortMax |-> mx], inUse |-> used,
                pc |-> "script", portFile |-> <<>>, daemonPort |-> 0,
                handle |-> 0, res |-> "none"]

BootOnly == UNCHANGED <<runVars, parVars, lockVars, progVars, addt, dist, stopVars, fin, wrs, extraVars>>

\* client.Run(ctx, script): the run fails (SSH, mkdir, exit 1 with no free
\* port) and StartRemote returns the error, or the script has written the
\* port to $RD/PORT and launched rsync --daemon --port=$PORT.
BootScript ==
    /\ boot.pc = "script"
    /\ LET port == ScanPorts(EffPortMin(boot.opts), EffPortMax(boot.opts), boot.inUse) IN
       \E sshOk \in BOOLEAN :
          IF sshOk /\ port # 0
          THEN boot' = [boot EXCEPT !.pc = "poll", !.portFile = FormatSize(port),
                                    !.daemonPort = port]
          ELSE boot' = [boot EXCEPT !.pc = "done", !.res = "err"]
    /\ BootOnly

\* The poll loop as a whole: a read of the PORT file that is accepted gives
\* the handle; no accepted read within the timeout gives the error.
BootPoll ==
    /\ boot.pc = "poll"
    /\ \E read \in BOOLEAN :
          IF read /\ ReadPort(boot.portFile) > 0
          THEN boot' = [boot EXCEPT !.pc = "done", !.res = "ok",
                                    !.handle = ReadPort(boot.portFile)]
          ELSE boot' = [boot EXCEPT !.pc = "done", !.res = "err"]
    /\ BootOnly

NextBoot == BootScript \/ BootPoll

InitSpecBoot ==
    /\ IdleRun /\ IdlePar /\ IdleLock /\ IdleProg /\ IdleAdd /\ IdleDist /\ IdleStop
    /\ IdleFin /\ InitBoot /\ IdleWait /\ IdleExtra

SpecBoot == InitSpecBoot /\ [][NextBoot]_vars

\* The ports of the effective range that accept no connection.
FreePorts ==
    {p \in EffPortMin(boot.opts)..EffPortMax(boot.opts) : p \notin boot.inUse}

\* C29: the daemon is started on, the PORT file holds and the handle carries
\* the lowest port of the range that accepts no connection; when every port
\* of the range accepts connections nothing is started and StartRemote
\* returns an error without a handle.
C29_LowestFreePort ==
    /\ boot.daemonPort # 0 =>
          /\ FreePorts # {}
          /\ boot.daemonPort = SetMin(FreePorts)
          /\ boot.portFile = FormatSize(SetMin(FreePorts))
    /\ boot.handle # 0 => boot.handle = boot.daemonPort
    /\ (boot.pc = "done" /\ FreePorts = {}) =>
          (boot.res = "err" /\ boot.handle = 0 /\ boot.daemonPort = 0)
    /\ boot.res = "ok" => boot.handle # 0

C29_Witness ==
    /\ boot.pc = "done" /\ boot.res = "ok"
    /\ boot.inUse = {DefaultPortMin, DefaultPortMin + 1}
    /\ boot.opts.PortMax = DefaultPortMin + 2
    /\ boot.handle = DefaultPortMin + 2

(***************************************************************************)
(*        WAITREPLICATIONSTARTED (internal/postgres)                       *)
(* One call, with its clock in seconds: the query, the deadline test and   *)
(* the select on ctx.Done() and the 1 s timer.                             *)
(***************************************************************************)

MaxWaitTimeout == 3
MaxQuerySeconds == 1

\* The timeout argument: a Duration, which may be zero or negative.
WaitTimeouts == (0 - 1)..MaxWaitTimeout

InitWait ==
    \E t \in WaitTimeouts :
        wrs = [timeout |-> t, elapsed |-> 0, polls |-> 0, last |-> "none",
               ctx |-> FALSE, pc |-> "query", res |-> "none"]

WaitOnly == UNCHANGED <<runVars, parVars, lockVars, progVars, addt, dist, stopVars, fin, boot, extraVars>>

\* The context is cancelled while the call is in progress.
WrsCancel ==
    /\ wrs.pc # "done" /\ ~wrs.ctx
    /\ wrs' = [wrs EXCEPT !.ctx = TRUE]
    /\ WaitOnly

\* The loop with the deadline tested before the query.
WrsPoll_deadlineFirst ==
    /\ wrs.pc = "query"
    /\ IF wrs.elapsed >= wrs.timeout
       THEN wrs' = [wrs EXCEPT !.pc = "done", !.res = "err"]
       ELSE \E out \in (IF wrs.ctx THEN {"err"} ELSE {"err", "exists", "absent"}),
               d \in 0..MaxQuerySeconds :
            wrs' = [wrs EXCEPT !.polls = @ + 1, !.last = out, !.elapsed = @ + d,
                               !.pc = IF out = "absent" THEN "select" ELSE "done",
                               !.res = CASE out = "err" -> "err"
                                         [] out = "exists" -> "nil"
                                         [] OTHER -> @]
    /\ WaitOnly

\* q.QueryRow(ctx, ...).Scan(&exists), which takes d seconds and fails on a
\* cancelled ctx; an error is returned, exists returns nil; otherwise the
\* deadline is tested (time.Now().After(deadline)) and the loop goes on to
\* the select.
WrsPoll ==
    /\ wrs.pc = "query"
    /\ \E out \in (IF wrs.ctx THEN {"err"} ELSE {"err", "exists", "absent"}),
          d \in 0..MaxQuerySeconds :
        wrs' = [wrs EXCEPT !.polls = @ + 1, !.last = out, !.elapsed = @ + d,
                           !.pc = IF out = "absent" /\ wrs.elapsed + d <= wrs.timeout
                                  THEN "select" ELSE "done",
                           !.res = CASE out = "exists" -> "nil"
                                     [] out = "err" -> "err"
                                     [] wrs.elapsed + d > wrs.timeout -> "err"
                                     [] OTHER -> @]
    /\ WaitOnly

\* select: ctx.Done() when the context is cancelled, or the timer after 1 s
\* (either one when both are ready).
WrsSelect ==
    /\ wrs.pc = "select"
    /\ \/ /\ wrs.ctx
          /\ wrs' = [wrs EXCEPT !.pc = "done", !.res = "cancelled"]
       \/ wrs' = [wrs EXCEPT !.pc = "query", !.elapsed = @ + 1]
    /\ WaitOnly

NextWait == WrsCancel \/ WrsPoll \/ WrsSelect

InitSpecWait ==
    /\ IdleRun /\ IdlePar /\ IdleLock /\ IdleProg /\ IdleAdd /\ IdleDist /\ IdleStop
    /\ IdleFin /\ IdleBoot /\ InitWait /\ IdleExtra

SpecWait == InitSpecWait /\ [][NextWait]_vars

\* C30: the call returns nil exactly when its last poll saw the application
\* name; a query error, a poll past the deadline that does not see it, and a
\* cancellation seen while waiting each return an error; no return happens
\* before the first poll, and the call does not go back to waiting once the
\* deadline has passed.
C30_WaitReplicationStarted ==
    /\ wrs.res = "nil" <=> (wrs.pc = "done" /\ wrs.last = "exists")
    /\ wrs.pc = "done" => (wrs.res \in {"nil", "err", "cancelled"} /\ wrs.polls >= 1)
    /\ (wrs.pc = "done" /\ wrs.last = "err") => wrs.res = "err"
    /\ (wrs.pc = "done" /\ wrs.last = "absent") =>
          \/ wrs.res = "err" /\ wrs.elapsed > wrs.timeout
          \/ wrs.res = "cancelled" /\ wrs.ctx
    /\ wrs.pc = "select" => (wrs.last = "absent" /\ wrs.elapsed <= wrs.timeout)

C30_Witness ==
    /\ wrs.pc = "done" /\ wrs.res = "err" /\ wrs.timeout <= 0
    /\ wrs.polls = 1 /\ wrs.last = "absent" /\ ~wrs.ctx

(***************************************************************************)
(*        SSH CLIENT (internal/ssh/client.go): Client.Run                  *)
(* One call: NewSession, Start, the goroutine that sends session.Wait()    *)
(* into the buffered channel done, and the select on ctx.Done() and done.  *)
(***************************************************************************)

\* The exit results a remote command can have (0 is success).
MaxExit == 1

SshOnly == UNCHANGED <<runVars, parVars, lockVars, progVars, addt, dist, stopVars, fin, boot, wrs, rt, boots, sec, conn>>

InitSsh ==
    \E so \in BOOLEAN, se \in BOOLEAN, c0 \in BOOLEAN :
        ssh = [stdout |-> so, stderr |-> se,    \* the writers are non-nil
               ctx |-> c0,                  \* ctx.Done() is closed
               pc |-> "NewSession",
               cmd |-> "none",              \* remote command: none | running | exited | killed
               exit |-> 0,                  \* its exit result
               done |-> <<>>,               \* the channel done (capacity 1)
               woken |-> "none",            \* the case that woke a parked select
               signals |-> 0,               \* SIGKILL requests sent on the session
               sessionOpen |-> FALSE,
               runningAtCancel |-> FALSE,   \* the command was running when ctx was cancelled
               res |-> "none"]

\* The caller cancels the context.
SshCancel ==
    /\ ~ssh.ctx /\ ssh.pc # "returned"
    /\ ssh' = [ssh EXCEPT !.ctx = TRUE,
                          !.runningAtCancel = (ssh.cmd = "running"),
                          !.woken = IF ssh.pc = "parked" /\ @ = "none" THEN "ctx" ELSE @]
    /\ SshOnly

\* session, err := c.client.NewSession(); the deferred Close is armed.
SshNewSession ==
    /\ ssh.pc = "NewSession"
    /\ \E out \in {"ok", "err"} :
        ssh' = IF out = "err"
               THEN [ssh EXCEPT !.pc = "returned", !.res = "err"]
               ELSE [ssh EXCEPT !.pc = "Start", !.sessionOpen = TRUE]
    /\ SshOnly

\* session.Start(cmd), then go func() { done <- session.Wait() }().
SshStart ==
    /\ ssh.pc = "Start"
    /\ \E out \in {"ok", "err"} :
        ssh' = IF out = "err"
               THEN [ssh EXCEPT !.pc = "returned", !.res = "err", !.sessionOpen = FALSE]
               ELSE [ssh EXCEPT !.pc = "select", !.cmd = "running"]
    /\ SshOnly

\* The remote command ends by itself with some exit result.
SshCmdExit ==
    /\ ssh.cmd = "running"
    /\ \E e \in 0..MaxExit : ssh' = [ssh EXCEPT !.cmd = "exited", !.exit = e]
    /\ SshOnly

\* The goroutine: session.Wait() has returned and its result is sent on done.
SshWaitSend ==
    /\ ssh.cmd \in {"exited", "killed"} /\ ssh.done = <<>>
    /\ ssh' = [ssh EXCEPT !.done = <<IF ssh.cmd = "killed" THEN "signal"
                                      ELSE IF ssh.exit = 0 THEN "nil" ELSE "exit">>,
                          !.woken = IF ssh.pc = "parked" /\ @ = "none" THEN "done" ELSE @]
    /\ SshOnly

\* case <-ctx.Done(): _ = session.Signal(ssh.SIGKILL); return ctx.Err()
SshTakeCtx ==
    ssh' = [ssh EXCEPT !.pc = "returned", !.res = "cancelled", !.signals = @ + 1,
                       !.cmd = IF @ = "running" THEN "killed" ELSE @,
                       !.sessionOpen = FALSE]

\* case err := <-done: return err
SshTakeDone ==
    ssh' = [ssh EXCEPT !.pc = "returned", !.res = ssh.done[1], !.done = <<>>,
                       !.sessionOpen = FALSE]

\* The select: a case that is ready is taken (any one of them when both
\* are); with none ready the goroutine parks and the first of the two
\* events wakes it with its case.
SshSelect ==
    /\ \/ /\ ssh.pc = "select"
          /\ \/ ssh.ctx /\ SshTakeCtx
             \/ ssh.done # <<>> /\ SshTakeDone
             \/ ~ssh.ctx /\ ssh.done = <<>> /\ ssh' = [ssh EXCEPT !.pc = "parked"]
       \/ /\ ssh.pc = "parked" /\ ssh.woken = "ctx" /\ SshTakeCtx
       \/ /\ ssh.pc = "parked" /\ ssh.woken = "done" /\ SshTakeDone
    /\ SshOnly

NextSsh == SshCancel \/ SshNewSession \/ SshStart \/ SshCmdExit \/ SshWaitSend \/ SshSelect

InitSpecSsh ==
    /\ IdleRun /\ IdlePar /\ IdleLock /\ IdleProg /\ IdleAdd /\ IdleDist /\ IdleStop
    /\ IdleFin /\ IdleBoot /\ IdleWait
    /\ InitSsh /\ IdleRt /\ IdleBoots /\ IdleSec /\ IdleConn

SpecSsh == InitSpecSsh /\ [][NextSsh]_vars

\* C31: when the context was cancelled while the remote command was running,
\* Run has sent the kill signal and returns the cancellation error, not the
\* command's exit result.
C31_CancelKillsAndReturnsCtxErr ==
    (ssh.pc = "returned" /\ ssh.runningAtCancel) =>
        (ssh.res = "cancelled" /\ ssh.signals = 1)

\* C31 (what holds): a cancellation that arrives while Run is parked in the
\* select is answered with the kill signal and the cancellation error, and
\* the cancellation error is never returned without the kill signal.
C31_CancelWhileParked ==
    /\ (ssh.pc = "returned" /\ ssh.woken = "ctx") => (ssh.res = "cancelled" /\ ssh.signals = 1)
    /\ ssh.res = "cancelled" => (ssh.ctx /\ ssh.signals = 1)

(***************************************************************************)
(*        Stats.Summary AND ParseStats (internal/rsync)                    *)
(* A Stats record is rendered by Summary and the text is read back by      *)
(* ParseStats, one line per step.  Values are texts (sequences of          *)
(* characters); FileListGenSeconds is counted in milliseconds.  A line is  *)
(* its label, the text after "label: " and, on the three "Number of"       *)
(* lines, the "key: value" pairs between the parentheses.                  *)
(***************************************************************************)

MaxCount == 1
MaxGenMs == 1

\* Byte counts below, at and above the first unit of formatBytes.
ByteSamples == {0, 999, 1000, 1500, 1048576}

unit == 1000

RtOnly == UNCHANGED <<runVars, parVars, lockVars, progVars, addt, dist, stopVars, fin, boot, wrs, ssh, boots, sec, conn>>

ByteFields == {"TotalFileSize", "TotalTransferredSize", "LiteralData", "MatchedData", "FileListSize", "BytesSent", "BytesReceived"}

\* Every field of Stats appears in Summary's format string.
EmittedFields == DOMAIN ZeroStats

RECURSIVE Pow(_, _)
Pow(b, e) == IF e = 0 THEN 1 ELSE b * Pow(b, e - 1)

\* for value >= unit && exp < 5 { value /= unit; exp++ }
RECURSIVE unitExp(_, _)
unitExp(n, exp) == IF n >= Pow(unit, exp + 1) /\ exp < 5 THEN unitExp(n, exp + 1) ELSE exp

suffix == <<<<"K", "B">>, <<"M", "B">>, <<"G", "B">>, <<"T", "B">>, <<"P", "B">>>>

\* %.2f of n / unit^exp: the value rounded to hundredths.
Hundredths(n, exp) == (n * 100 + Pow(unit, exp) \div 2) \div Pow(unit, exp)

Pad(k, width) == IF width = 2 THEN <<Digits[(k \div 10) + 1], Digits[(k % 10) + 1]>>
                 ELSE <<Digits[(k \div 100) + 1], Digits[((k \div 10) % 10) + 1], Digits[(k % 10) + 1]>>

formatBytes(n) ==
    IF n < unit THEN FormatSize(n) \o <<" ", "B">>
    ELSE LET exp == unitExp(n, 1)
             h == Hundredths(n, exp)
         IN FormatSize(h \div 100) \o <<".">> \o Pad(h % 100, 2) \o <<" ">> \o suffix[exp]

\* %.3f of the generation time.
formatSeconds(ms) == FormatSize(ms \div 1000) \o <<".">> \o Pad(ms % 1000, 3)

\* The text a regexp group ([0-9.,A-Za-z]+) or ([0-9.,]+) takes from the
\* start of t: the longest prefix of characters of the class.
RECURSIVE Capture(_, _)
Capture(t, letters) ==
    IF t = <<>> THEN <<>>
    ELSE IF IsDigit(t[1]) \/ t[1] \in {".", ","} \/ (letters /\ t[1] \notin {" ", "(", ")", ":"})
         THEN <<t[1]>> \o Capture(Tail(t), letters)
         ELSE <<>>

RECURSIVE cleanNum(_)
cleanNum(s) == IF s = <<>> THEN <<>>
               ELSE (IF IsDigit(s[1]) THEN <<s[1]>> ELSE <<>>) \o cleanNum(Tail(s))

\* strconv.ParseInt(cleanNum(s), 10, 64), 0 on an empty text.
toInt(s) == ParseFrom(cleanNum(s), 1, 0, FALSE).n

RECURSIVE NumPartLen(_)
NumPartLen(s) == IF s = <<>> \/ ~(IsDigit(s[1]) \/ s[1] = ".") THEN 0 ELSE 1 + NumPartLen(Tail(s))

\* parseHumanSize: the leading number times the binary multiplier of the
\* first unit letter; 0 when the number does not parse.
parseHumanSize(s0) ==
    LET s == SelectSeq(s0, LAMBDA c : c \notin {" ", ","})
        k == NumPartLen(s)
        numPart == SubSeq(s, 1, k)
        unitPart == SubSeq(s, k + 1, Len(s))
        dots == {i \in 1..k : numPart[i] = "."}
        dot == IF dots = {} THEN k + 1 ELSE CHOOSE i \in dots : TRUE
        whole == ParseFrom(SubSeq(numPart, 1, dot - 1), 1, 0, FALSE).n
        frac == SubSeq(numPart, dot + 1, k)
        u == IF unitPart = <<>> THEN "" ELSE unitPart[1]
        \* T and P (2^40, 2^50) lie beyond the integers of the model
        multiplier == CASE u \in {"K", "k"} -> 1024
                        [] u \in {"M", "m"} -> 1048576
                        [] u \in {"G", "g"} -> 1073741824
                        [] OTHER -> 1
    IN IF k = 0 \/ Cardinality(dots) > 1 \/ numPart = <<".">> THEN 0
       ELSE ((whole * Pow(10, Len(frac)) + ParseFrom(frac, 1, 0, FALSE).n) * multiplier)
                \div Pow(10, Len(frac))

toBytes(s) ==
    IF s = <<>> THEN 0
    ELSE IF \E i \in 1..Len(s) : ~IsDigit(s[i]) /\ s[i] \notin {".", ",", " "}
         THEN parseHumanSize(s)
         ELSE toInt(s)

\* strconv.ParseFloat of "a.bcd" (a comma read as the point), in milliseconds.
parseSeconds(v) ==
    LET dots == {i \in 1..Len(v) : v[i] \in {".", ","}}
        dot == IF dots = {} THEN Len(v) + 1 ELSE CHOOSE i \in dots : TRUE
        frac == SubSeq(v, dot + 1, Len(v))
    IN IF Cardinality(dots) > 1 \/ Len(frac) > 3 THEN 0
       ELSE ParseFrom(SubSeq(v, 1, dot - 1), 1, 0, FALSE).n * 1000
            + ParseFrom(frac, 1, 0, FALSE).n * Pow(10, 3 - Len(frac))

Line(label, text, cats) == [label |-> label, text |-> text, cats |-> cats]

\* Stats.Summary: the lines of the text, in order.
Summary(s) ==
    << Line("", <<>>, <<>>),
       Line("Number of files", FormatSize(s.NumFiles),
            << <<"reg", FormatSize(s.RegFiles)>>, <<"dir", FormatSize(s.DirFiles)>>,
               <<"link", FormatSize(s.LinkFiles)>> >>),
       Line("Number of created files", FormatSize(s.CreatedFiles),
            << <<"reg", FormatSize(s.CreatedReg)>>, <<"dir", FormatSize(s.CreatedDir)>> >>),
       Line("Number of deleted files", FormatSize(s.DeletedFiles),
            << <<"reg", FormatSize(s.DeletedReg)>>, <<"dir", FormatSize(s.DeletedDir)>> >>),
       Line("Number of regular files transferred", FormatSize(s.RegTransferred), <<>>),
       Line("Total file size", formatBytes(s.TotalFileSize), <<>>),
       Line("Total transferred file size", formatBytes(s.TotalTransferredSize), <<>>),
       Line("Literal data", formatBytes(s.LiteralData), <<>>),
       Line("Matched data", formatBytes(s.MatchedData), <<>>),
       Line("File list size", formatBytes(s.FileListSize), <<>>),
       Line("File list generation time", formatSeconds(s.FileListGenSeconds) \o <<" ", "seconds">>, <<>>),
       Line("Total bytes sent", formatBytes(s.BytesSent), <<>>),
       Line("Total bytes received", formatBytes(s.BytesReceived), <<>>),
       Line("", <<>>, <<>>),
       Line("sent", formatBytes(s.BytesSent), <<>>) >>

\* The field a "key: value" pair of a "Number of" line is stored in, "" if none.
CatField(label, key) ==
    CASE label = "Number of files" /\ key = "reg" -> "RegFiles"
      [] label = "Number of files" /\ key = "dir" -> "DirFiles"
      [] label = "Number of files" /\ key \in {"link", "sym"} -> "LinkFiles"
      [] label = "Number of created files" /\ key \in {"reg", "regular files", "regular"} -> "CreatedReg"
      [] label = "Number of created files" /\ key \in {"dir", "directories"} -> "CreatedDir"
      [] label = "Number of deleted files" /\ key \in {"reg", "regular files", "regular", "file", "files"} -> "DeletedReg"
      [] label = "Number of deleted files" /\ key \in {"dir", "directories"} -> "DeletedDir"
      [] OTHER -> ""

RECURSIVE ParseCats(_, _, _)
ParseCats(s, label, cats) ==
    IF cats = <<>> THEN s
    ELSE LET f == CatField(label, cats[1][1])
         IN ParseCats(IF f = "" THEN s ELSE [s EXCEPT ![f] = toInt(cats[1][2])], label, Tail(cats))

CountLabels == [l \in {"Number of files", "Number of created files", "Number of deleted files",
                       "Number of regular files transferred"} |->
                CASE l = "Number of files" -> "NumFiles"
                  [] l = "Number of created files" -> "CreatedFiles"
                  [] l = "Number of deleted files" -> "DeletedFiles"
                  [] OTHER -> "RegTransferred"]

ByteLabels == [l \in {"Total file size", "Total transferred file size", "Literal data",
                      "Matched data", "Total bytes sent", "File list size", "Total bytes received"} |->
               CASE l = "Total file size" -> "TotalFileSize"
                 [] l = "Total transferred file size" -> "TotalTransferredSize"
                 [] l = "Literal data" -> "LiteralData"
                 [] l = "Matched data" -> "MatchedData"
                 [] l = "Total bytes sent" -> "BytesSent"
                 [] l = "File list size" -> "FileListSize"
                 [] OTHER -> "BytesReceived"]

\* The switch of ParseStats on one line.
ParseLine(s, line) ==
    CASE line.label \in DOMAIN CountLabels /\ Capture(line.text, FALSE) # <<>> ->
            ParseCats([s EXCEPT ![CountLabels[line.label]] = toInt(Capture(line.text, FALSE))],
                      line.label, line.cats)
      [] line.label \in DOMAIN ByteLabels /\ Capture(line.text, TRUE) # <<>> ->
            [s EXCEPT ![ByteLabels[line.label]] = toBytes(Capture(line.text, TRUE))]
      [] line.label = "File list generation time" /\ Capture(line.text, FALSE) # <<>> ->
            LET f == parseSeconds(Capture(line.text, FALSE))
            IN IF f > s.FileListGenSeconds THEN [s EXCEPT !.FileListGenSeconds = f] ELSE s
      [] OTHER -> s

\* A record with non-negative counters: counts from c, byte counts b1 and b2.
MkRt(c, b1, b2, g) ==
    [MkStats(c, g) EXCEPT !.TotalFileSize = b1, !.TotalTransferredSize = b2,
                          !.LiteralData = b2, !.MatchedData = b1, !.FileListSize = b1,
                          !.BytesSent = b2, !.BytesReceived = b1]

InitRt ==
    \E c \in 0..MaxCount, b1 \in ByteSamples, b2 \in ByteSamples, g \in 0..MaxGenMs :
        rt = [S |-> MkRt(c, b1, b2, g), lines |-> <<>>, parsed |-> ZeroStats, pc |-> "Summary"]

\* text := S.Summary(elapsed)
RtSummary ==
    /\ rt.pc = "Summary"
    /\ rt' = [rt EXCEPT !.lines = Summary(rt.S), !.pc = "Scan"]
    /\ RtOnly

\* One turn of the loop of ParseStats: sc.Scan() yields the next line.
RtScan ==
    /\ rt.pc = "Scan" /\ rt.lines # <<>>
    /\ rt' = [rt EXCEPT !.parsed = ParseLine(@, Head(rt.lines)), !.lines = Tail(@)]
    /\ RtOnly

\* sc.Scan() returns false: return s, sc.Err().
RtReturn ==
    /\ rt.pc = "Scan" /\ rt.lines = <<>>
    /\ rt' = [rt EXCEPT !.pc = "done"]
    /\ RtOnly

NextRt == RtSummary \/ RtScan \/ RtReturn

InitSpecRt ==
    /\ IdleRun /\ IdlePar /\ IdleLock /\ IdleProg /\ IdleAdd /\ IdleDist /\ IdleStop
    /\ IdleFin /\ IdleBoot /\ IdleWait
    /\ IdleSsh /\ InitRt /\ IdleBoots /\ IdleSec /\ IdleConn

SpecRt == InitSpecRt /\ [][NextRt]_vars

\* C32: what ParseStats reads back from Summary(S) equals S on every field
\* Summary prints, whatever the byte counts of S.
C32_RoundTrip ==
    rt.pc = "done" => \A f \in EmittedFields : rt.parsed[f] = rt.S[f]

\* C32 (what holds): the round trip is exact on the counters and the
\* generation time, and on a byte count exactly when it is below 1000.
C32_RoundTripBelowUnit ==
    rt.pc = "done" =>
        /\ \A f \in EmittedFields \ ByteFields : rt.parsed[f] = rt.S[f]
        /\ \A f \in ByteFields : (rt.parsed[f] = rt.S[f]) <=> (rt.S[f] < unit)

(***************************************************************************)
(*        CONCURRENT BOOTSTRAPS ON ONE PRIMARY (rsync.StartRemote)         *)
(* NumBoots calls of StartRemote, by different clone runs, against the     *)
(* same primary with the default port range.  Each remote script scans the *)
(* ports, writes its PORT file and launches rsync --daemon in the          *)
(* background; the daemon binds its port later, or exits if it cannot.     *)
(***************************************************************************)

NumBoots == 2

Boots == 1..NumBoots

BootPorts == DefaultPortMin..(DefaultPortMin + PortSpan)

BootsOnly == UNCHANGED <<runVars, parVars, lockVars, progVars, addt, dist, stopVars, fin, boot, wrs, ssh, rt, sec, conn>>

\* boots.listen[p]: 0 when nothing listens on p, a bootstrap's number when
\* its daemon does, NumBoots + 1 for any other process of the primary.
InitBoots ==
    \E used \in SUBSET BootPorts :
        boots = [listen |-> [p \in BootPorts |-> IF p \in used THEN NumBoots + 1 ELSE 0],
                 b |-> [i \in Boots |-> [pc |-> "script", port |-> 0, daemon |-> "none",
                                         handle |-> 0, res |-> "none"]]]

\* The ports that accept a connection now.
Listening == {p \in BootPorts : boots.listen[p] # 0}

\* Bootstrap i's remote script up to `nohup rsync --daemon ... &`: the scan
\* of the ports as they are now, exit 1 without a free one, else the PORT
\* file and the daemon launched in the background.
BootsScript(i) ==
    /\ boots.b[i].pc = "script"
    /\ LET port == ScanPorts(DefaultPortMin, DefaultPortMin + PortSpan, Listening) IN
        IF port = 0
        THEN boots' = [boots EXCEPT !.b[i].pc = "done", !.b[i].res = "err"]
        ELSE boots' = [boots EXCEPT !.b[i].pc = "poll", !.b[i].port = port,
                                    !.b[i].daemon = "starting"]
    /\ BootsOnly

\* Bootstrap i's daemon binds its port, or exits because the port is taken
\* (its output goes to /dev/null).
BootsDaemonBind(i) ==
    /\ boots.b[i].daemon = "starting"
    /\ IF boots.listen[boots.b[i].port] = 0
       THEN boots' = [boots EXCEPT !.listen[boots.b[i].port] = i, !.b[i].daemon = "listening"]
       ELSE boots' = [boots EXCEPT !.b[i].daemon = "exited"]
    /\ BootsOnly

\* The poll reads the PORT file and StartRemote returns the handle.
BootsPoll(i) ==
    /\ boots.b[i].pc = "poll"
    /\ boots' = [boots EXCEPT !.b[i].pc = "done", !.b[i].res = "ok",
                              !.b[i].handle = ReadPort(FormatSize(boots.b[i].port))]
    /\ BootsOnly

NextBoots == \E i \in Boots : BootsScript(i) \/ BootsDaemonBind(i) \/ BootsPoll(i)

InitSpecBoots ==
    /\ IdleRun /\ IdlePar /\ IdleLock /\ IdleProg /\ IdleAdd /\ IdleDist /\ IdleStop
    /\ IdleFin /\ IdleBoot /\ IdleWait
    /\ IdleSsh /\ IdleRt /\ InitBoots /\ IdleSec /\ IdleConn

SpecBoots == InitSpecBoots /\ [][NextBoots]_vars

\* C36: a handle's port is the port the daemon of the same bootstrap
\* listens on (once that daemon has bound or given up), and two bootstraps
\* never both return the same port.
C36_HandlePortIsOwnDaemon ==
    /\ \A i \in Boots : (boots.b[i].res = "ok" /\ boots.b[i].daemon # "starting") =>
            boots.listen[boots.b[i].handle] = i
    /\ \A i, j \in Boots : (i # j /\ boots.b[i].res = "ok" /\ boots.b[j].res = "ok") =>
            boots.b[i].handle # boots.b[j].handle

\* C36 (what holds): once the daemon of a returned handle has bound or
\* given up, the daemon of some bootstrap listens on the handle's port; no
\* two daemons listen on the same port.
C36_SomeoneListensOnHandlePort ==
    /\ \A i \in Boots : (boots.b[i].res = "ok" /\ boots.b[i].daemon # "starting") =>
            boots.listen[boots.b[i].handle] \in Boots
    /\ \A i, j \in Boots : (i # j /\ boots.b[i].daemon = "listening" /\ boots.b[j].daemon = "listening") =>
            boots.b[i].port # boots.b[j].port

(***************************************************************************)
(*        THE LOCAL SECRET FILE (clone.stepBackupStart)                    *)
(* NumRuns clone runs on one host, each for its own replica directory (so  *)
(* each holds its own lock) and each with the secret of its own daemon.    *)
(* Every run writes its secret to filepath.Join(os.TempDir(),              *)
(* "pgclone_rsync_pass") and hands that path to its rsync subprocesses.    *)
(***************************************************************************)

NumRuns == 2
MaxReads == 2

Runs == 1..NumRuns

SecOnly == UNCHANGED <<runVars, parVars, lockVars, progVars, addt, dist, stopVars, fin, boot, wrs, ssh, rt, boots, conn>>

\* Run i's daemon secret is i; sec.file is the content of the one path: 0
\* for an empty or missing file, else the secret it holds.
InitSec ==
    sec = [file |-> 0,
           r |-> [i \in Runs |-> [pc |-> "start", used |-> <<>>]]]

\* os.WriteFile, first half: the path is opened with O_CREATE|O_TRUNC.
SecTruncate(i) ==
    /\ sec.r[i].pc = "start"
    /\ sec' = [sec EXCEPT !.file = 0, !.r[i].pc = "write"]
    /\ SecOnly

\* os.WriteFile, second half: o.rsyncSecret is written and the file closed;
\* rcfg.SecretFile is the path.
SecWrite(i) ==
    /\ sec.r[i].pc = "write"
    /\ sec' = [sec EXCEPT !.file = i, !.r[i].pc = "transfer"]
    /\ SecOnly

\* An rsync subprocess of run i (list-only, initial copy, a worker) reads
\* --password-file.
SecRsyncRead(i) ==
    /\ sec.r[i].pc = "transfer"
    /\ Len(sec.r[i].used) < MaxReads
    /\ sec' = [sec EXCEPT !.r[i].used = Append(@, sec.file)]
    /\ SecOnly

\* Run i has launched its last rsync.
SecDone(i) ==
    /\ sec.r[i].pc = "transfer"
    /\ sec' = [sec EXCEPT !.r[i].pc = "done"]
    /\ SecOnly

NextSec == \E i \in Runs : SecTruncate(i) \/ SecWrite(i) \/ SecRsyncRead(i) \/ SecDone(i)

InitSpecSec ==
    /\ IdleRun /\ IdlePar /\ IdleLock /\ IdleProg /\ IdleAdd /\ IdleDist /\ IdleStop
    /\ IdleFin /\ IdleBoot /\ IdleWait
    /\ IdleSsh /\ IdleRt /\ IdleBoots /\ InitSec /\ IdleConn

SpecSec == InitSpecSec /\ [][NextSec]_vars

\* C37: every rsync subprocess of a run reads the secret of that run's own
\* daemon from the file the run handed to it.
C37_OwnSecretRead ==
    \A i \in Runs : \A k \in DOMAIN sec.r[i].used : sec.r[i].used[k] = i

\* C37 (what holds): a run reads its own secret as long as no other run has
\* started writing the file.
C37_OwnSecretWhenAlone ==
    \A i \in Runs : (\A j \in Runs \ {i} : sec.r[j].pc = "start") =>
        \A k \in DOMAIN sec.r[i].used : sec.r[i].used[k] = i

(***************************************************************************)
(*        DAEMON CONNECTIONS (clone.stepWalAndRsyncd, rsync.RunParallel)   *)
(* The daemon's `max connections` as the orchestrator configures it, and   *)
(* the transfer subprocesses one RunParallel call runs at the same time,   *)
(* each of which holds one connection to the daemon while it runs.         *)
(***************************************************************************)

MaxParallel == 2
MaxConnFiles == 18

\* opts.MaxConn = 16 when left at 0.
DefaultMaxConn == 16

\* runtime.NumCPU() of the replica host.
CpuCounts == {1, 4, 2 * DefaultMaxConn, 2 * DefaultMaxConn + 2}

FileCounts == {0, 3, MaxConnFiles}

ConnOnly == UNCHANGED <<runVars, parVars, lockVars, progVars, addt, dist, stopVars, fin, boot, wrs, ssh, rt, boots, sec>>

InitConn ==
    \E par \in 0..MaxParallel, cpus \in CpuCounts, n \in FileCounts :
        conn = [Parallel |-> par, NumCPU |-> cpus, nfiles |-> n,
                MaxConn |-> 0, workers |-> 0, buckets |-> 0,
                started |-> 0, running |-> 0, pc |-> "StartRemote"]

\* StartRemote(..., BootstrapOptions{MaxConn: o.cfg.Parallel * 4}) with the
\* default applied to 0: the value written to rsyncd.conf.
ConnStartRemote ==
    /\ conn.pc = "StartRemote"
    /\ conn' = [conn EXCEPT !.MaxConn = IF conn.Parallel * 4 = 0 THEN DefaultMaxConn
                                        ELSE conn.Parallel * 4,
                            !.pc = "RunParallel"]
    /\ ConnOnly

\* RunParallel(..., o.cfg.Parallel, files, ...): the worker count default
\* and Distribute; one subprocess is to be launched per non-empty bucket.
ConnRunParallel ==
    /\ conn.pc = "RunParallel"
    /\ LET workers == IF conn.Parallel <= 0
                      THEN (IF conn.NumCPU \div 2 > 1 THEN conn.NumCPU \div 2 ELSE 1)
                      ELSE conn.Parallel
           out == Distribute([k \in 1..conn.nfiles |-> [Path |-> "a", Size |-> 1]], workers)
       IN conn' = [conn EXCEPT !.workers = workers,
                               !.buckets = Cardinality({w \in DOMAIN out : out[w] # <<>>}),
                               !.pc = "launch"]
    /\ ConnOnly

\* The launch loop starts the subprocess of the next non-empty bucket.
ConnLaunch ==
    /\ conn.pc = "launch"
    /\ conn.started < conn.buckets
    /\ conn' = [conn EXCEPT !.started = @ + 1, !.running = @ + 1]
    /\ ConnOnly

\* A transfer subprocess exits.
ConnWorkerExit ==
    /\ conn.running > 0
    /\ conn' = [conn EXCEPT !.running = @ - 1]
    /\ ConnOnly

\* All workers have finished: RunParallel returns.
ConnReturn ==
    /\ conn.pc = "launch"
    /\ conn.started = conn.buckets /\ conn.running = 0
    /\ conn' = [conn EXCEPT !.pc = "done"]
    /\ ConnOnly

NextConn == ConnStartRemote \/ ConnRunParallel \/ ConnLaunch \/ ConnWorkerExit \/ ConnReturn

InitSpecConn ==
    /\ IdleRun /\ IdlePar /\ IdleLock /\ IdleProg /\ IdleAdd /\ IdleDist /\ IdleStop
    /\ IdleFin /\ IdleBoot /\ IdleWait
    /\ IdleSsh /\ IdleRt /\ IdleBoots /\ IdleSec /\ InitConn

SpecConn == InitSpecConn /\ [][NextConn]_vars

\* C38: the transfer subprocesses running at the same time are never more
\* than the max connections the daemon was configured with.
C38_WorkersWithinMaxConn ==
    conn.pc # "StartRemote" => conn.running <= conn.MaxConn

\* C38 (what holds): with Parallel >= 1 the subprocesses running at the
\* same time are at most Parallel, a quarter of the daemon's limit; with
\* Parallel = 0 they are at most max(NumCPU / 2, 1), which stays within the
\* default limit up to 2 * DefaultMaxConn + 1 CPUs.
C38_WithinLimitForSetParallel ==
    conn.pc # "StartRemote" =>
        /\ conn.Parallel >= 1 => (conn.running <= conn.Parallel /\ conn.MaxConn = 4 * conn.Parallel)
        /\ (conn.Parallel = 0 /\ conn.NumCPU <= 2 * DefaultMaxConn + 1) => conn.running <= conn.MaxConn

====
